---- MODULE Spec2Model ----
(***************************************************************************)
(* A model of staticrypt (tgimgcdn/staticrypt): the crypto engine of the   *)
(* client runtime (hex and UTF-8 encoders, encrypt, decrypt, hashPassword) *)
(* and the three client runtimes of src/lib/staticrypt.js with their       *)
(* remembered-credential storage.                                          *)
(*                                                                         *)
(* Representation.  A JavaScript string is a sequence of UTF-16 code       *)
(* units (integers); hex strings, which the code only ever builds from the *)
(* characters of HexEncoder.stringify or reads from the page, are kept as  *)
(* TLA+ strings.  Byte arrays (Uint8Array) are sequences over 0..255.      *)
(* A thrown exception / rejected promise is the value Throw.               *)
(***************************************************************************)
EXTENDS Integers, Sequences, FiniteSets, Bags, TLC

VARIABLES
    codec,              \* the crypto-engine exercise: one encrypt/decrypt experiment
    variant,            \* which client runtime of staticrypt.js the page runs
    config,             \* window.staticryptConfig of the loaded page
    placeholders,       \* section ids whose placeholder element is in the DOM
    inserted,           \* per section id: the contents inserted at its placeholder
    modalDisplay,       \* modal.style.display
    currentSectionId,   \* modal.dataset.currentSectionId
    passwordInput,      \* value of #staticrypt-modal-password
    rememberChecked,    \* #staticrypt-modal-remember .checked
    storage,            \* localStorage: passphrase and expiration entries
    now,                \* the clock read by new Date().getTime(), in ms
    decryptedContent,   \* whole-document runtime: the module-level cache
    decryptedSections,  \* per-section runtime: the Map of decrypted sections
    pending,            \* async calls suspended at an await
    lastAlert,          \* message of the alert() raised by the last step, if any
    loaded              \* DOMContentLoaded has run

vars == <<codec, variant, config, placeholders, inserted, modalDisplay,
          currentSectionId, passwordInput, rememberChecked, storage, now,
          decryptedContent, decryptedSections, pending, lastAlert, loaded>>

rtVars == <<variant, config, placeholders, inserted, modalDisplay,
            currentSectionId, passwordInput, rememberChecked, storage, now,
            decryptedContent, decryptedSections, pending, lastAlert, loaded>>

-----------------------------------------------------------------------------
(* Strings and bytes                                                       *)

\* The printable ASCII characters in code order: U+0020..U+005F and
\* U+0061..U+007E (U+0060 cannot be written in a TLA+ string).
AsciiLow == " !\"#$%&'()*+,-./0123456789:;<=>?@ABCDEFGHIJKLMNOPQRSTUVWXYZ[\\]^_"
AsciiHigh == "abcdefghijklmnopqrstuvwxyz{|}~"

CharAt(s, i) == SubSeq(s, i, i)

\* A function that is looked up many times, as the table of its values (TLC
\* tabulates a function when it compares it, and evaluates its expression at
\* every application otherwise).
Tabulated(f) == IF f = f THEN f ELSE f

\* const v = ...: a value is computed once and used under a name.
With(v, F(_)) == F(v)

\* The code unit of a one-character ASCII string.
AsciiCode ==
    Tabulated([c \in {CharAt(AsciiLow, i) : i \in 1..Len(AsciiLow)}
                    \cup {CharAt(AsciiHigh, i) : i \in 1..Len(AsciiHigh)} |->
        IF \E i \in 1..Len(AsciiLow) : CharAt(AsciiLow, i) = c
        THEN 31 + (CHOOSE i \in 1..Len(AsciiLow) : CharAt(AsciiLow, i) = c)
        ELSE 96 + (CHOOSE i \in 1..Len(AsciiHigh) : CharAt(AsciiHigh, i) = c)])
Ord(c) == IF c = "\n" THEN 10 ELSE AsciiCode[c]

\* A TLA+ string literal as a JavaScript string (sequence of code units).
U(s) == [i \in 1..Len(s) |-> Ord(CharAt(s, i))]

\* The outcome of a call: a returned value, or a thrown exception (a rejected
\* promise for an async function).
Ok(v) == [ok |-> TRUE, v |-> v]
Throw == [ok |-> FALSE]

\* The concatenation of the sequences (or strings) parts[lo..hi], halving
\* the range so that long inputs do not nest deeply; empty is the value for
\* an empty range.
RECURSIVE ConcatRange(_, _, _, _)
ConcatRange(parts, lo, hi, empty) ==
    IF lo > hi THEN empty
    ELSE IF lo = hi THEN parts[lo]
    ELSE LET mid == (lo + hi) \div 2
         IN  ConcatRange(parts, lo, mid, empty) \o ConcatRange(parts, mid + 1, hi, empty)

Flatten(parts) == ConcatRange(parts, 1, Len(parts), <<>>)

-----------------------------------------------------------------------------
(* HexEncoder                                                              *)

HexLower == "0123456789abcdef"
HexUpper == "0123456789ABCDEF"

\* The value of a hex digit, -1 for any other character.
HexVal(c) ==
    IF \E i \in 1..16 : CharAt(HexLower, i) = c
    THEN (CHOOSE i \in 1..16 : CharAt(HexLower, i) = c) - 1
    ELSE IF \E i \in 1..16 : CharAt(HexUpper, i) = c
    THEN (CHOOSE i \in 1..16 : CharAt(HexUpper, i) = c) - 1
    ELSE -1

\* White space that parseInt skips (StrWhiteSpaceChar), among the ASCII set.
IsWhiteSpace(c) == c \in {" ", "\t", "\n", "\r", "\f"}

\* parseInt(pair, 16) for a string of at most two characters: leading white
\* space is skipped, a sign is read, a 0x prefix is dropped, then the longest
\* run of hex digits is the value; no digit at all is NaN.
NaN == [nan |-> TRUE, n |-> 0]
Num(n) == [nan |-> FALSE, n |-> n]

ParseInt16(pair) ==
    With(IF Len(pair) >= 1 THEN CharAt(pair, 1) ELSE "", LAMBDA c1 :
    With(IF Len(pair) >= 2 THEN CharAt(pair, 2) ELSE "", LAMBDA c2 :
    With(IF c1 = "" THEN -1 ELSE HexVal(c1), LAMBDA d1 :
    With(IF c2 = "" THEN -1 ELSE HexVal(c2), LAMBDA d2 :
        IF c1 = "" THEN NaN
        ELSE IF IsWhiteSpace(c1) THEN (IF d2 >= 0 THEN Num(d2) ELSE NaN)
        ELSE IF c1 = "+" THEN (IF d2 >= 0 THEN Num(d2) ELSE NaN)
        ELSE IF c1 = "-" THEN (IF d2 >= 0 THEN Num(0 - d2) ELSE NaN)
        ELSE IF c1 = "0" /\ c2 \in {"x", "X"} THEN NaN
        ELSE IF d1 < 0 THEN NaN
        ELSE IF d2 >= 0 THEN Num(16 * d1 + d2)
        ELSE Num(d1)))))

\* Storing a number in a Uint8Array element (ToUint8).
ToUint8(n) == n % 256

\* HexEncoder.parse: the bytes, or Throw ("Invalid hexString") when the
\* length is odd or parseInt gives NaN for one of the pairs.
HexParse(hexString) ==
    IF Len(hexString) % 2 # 0 THEN Throw
    ELSE With([k \in 1..(Len(hexString) \div 2) |->
                  ParseInt16(SubSeq(hexString, 2 * k - 1, 2 * k))], LAMBDA byteValue :
             IF \E k \in DOMAIN byteValue : byteValue[k].nan THEN Throw
             ELSE Ok([k \in DOMAIN byteValue |-> ToUint8(byteValue[k].n)]))

\* b.toString(16).padStart(2, '0')
ByteToHex(b) ==
    IF b < 16 THEN "0" \o CharAt(HexLower, b + 1)
    ELSE CharAt(HexLower, (b \div 16) + 1) \o CharAt(HexLower, (b % 16) + 1)

\* HexEncoder.stringify
HexStringify(bytes) ==
    ConcatRange([i \in 1..Len(bytes) |-> ByteToHex(bytes[i])], 1, Len(bytes), "")

-----------------------------------------------------------------------------
(* UTF8Encoder: TextEncoder.encode and TextDecoder.decode                  *)

IsHighSurrogate(cu) == 55296 <= cu /\ cu <= 56319      \* U+D800..U+DBFF
IsLowSurrogate(cu) == 56320 <= cu /\ cu <= 57343       \* U+DC00..U+DFFF

\* The UTF-8 bytes of one code point (scalar value).
EncodeCodePoint(cp) ==
    IF cp < 128 THEN <<cp>>
    ELSE IF cp < 2048 THEN <<192 + (cp \div 64), 128 + (cp % 64)>>
    ELSE IF cp < 65536
    THEN <<224 + (cp \div 4096), 128 + ((cp \div 64) % 64), 128 + (cp % 64)>>
    ELSE <<240 + (cp \div 262144), 128 + ((cp \div 4096) % 64),
           128 + ((cp \div 64) % 64), 128 + (cp % 64)>>

\* TextEncoder.encode: the string is first made well formed (a surrogate
\* that is not half of a pair becomes U+FFFD), then encoded.  The bytes that
\* the code unit at i contributes:
UTF8BytesAt(str, i) ==
    IF IsHighSurrogate(str[i]) /\ i < Len(str) /\ IsLowSurrogate(str[i + 1])
    THEN EncodeCodePoint(65536 + (str[i] - 55296) * 1024 + (str[i + 1] - 56320))
    ELSE IF IsLowSurrogate(str[i]) /\ i > 1 /\ IsHighSurrogate(str[i - 1])
    THEN <<>>
    ELSE IF IsHighSurrogate(str[i]) \/ IsLowSurrogate(str[i])
    THEN EncodeCodePoint(65533)
    ELSE EncodeCodePoint(str[i])

UTF8Parse(str) == Flatten([i \in 1..Len(str) |-> UTF8BytesAt(str, i)])

\* The code units of a decoded code point.
CodeUnits(cp) ==
    IF cp < 65536 THEN <<cp>>
    ELSE <<55296 + ((cp - 65536) \div 1024), 56320 + ((cp - 65536) % 1024)>>

\* The UTF-8 decoder of the Encoding standard in replacement (non fatal)
\* mode.  A lead byte announces 1..3 continuation bytes and the range of the
\* first of them; a lead byte is never a continuation byte, so what the
\* decoder does at a byte depends on the three bytes before it at most.
Needed(b) ==
    IF 194 <= b /\ b <= 223 THEN 1
    ELSE IF 224 <= b /\ b <= 239 THEN 2
    ELSE IF 240 <= b /\ b <= 244 THEN 3
    ELSE 0
Lower(b) == IF b = 224 THEN 160 ELSE IF b = 240 THEN 144 ELSE 128
Upper(b) == IF b = 237 THEN 159 ELSE IF b = 244 THEN 143 ELSE 191

\* The byte at k continues the sequence whose lead byte is at j.
Continues(bytes, j, k) ==
    /\ k <= Len(bytes)
    /\ IF k = j + 1 THEN Lower(bytes[j]) <= bytes[k] /\ bytes[k] <= Upper(bytes[j])
                    ELSE 128 <= bytes[k] /\ bytes[k] <= 191

\* How many continuation bytes the decoder consumes after the lead at j.
Consumed(bytes, j) ==
    IF Needed(bytes[j]) >= 1 /\ Continues(bytes, j, j + 1)
    THEN IF Needed(bytes[j]) >= 2 /\ Continues(bytes, j, j + 2)
         THEN IF Needed(bytes[j]) >= 3 /\ Continues(bytes, j, j + 3) THEN 3 ELSE 2
         ELSE 1
    ELSE 0

\* The code units the decoder emits for the byte at i: none when the byte
\* was consumed by a lead byte before it, U+FFFD for a byte that starts no
\* sequence and for a sequence cut short.
DecodedAt(bytes, first, i) ==
    With(Needed(bytes[i]), LAMBDA n :
    With(Consumed(bytes, i), LAMBDA m :
    With(IF n = 1 THEN bytes[i] - 192
         ELSE IF n = 2 THEN bytes[i] - 224 ELSE bytes[i] - 240, LAMBDA leadByte :
        IF \E j \in 1..3 : /\ i - j >= first
                           /\ Needed(bytes[i - j]) >= j
                           /\ Consumed(bytes, i - j) >= j
        THEN <<>>
        ELSE IF bytes[i] <= 127 THEN <<bytes[i]>>
        ELSE IF n >= 1 /\ m = n
        THEN CodeUnits(
                IF m = 1 THEN leadByte * 64 + (bytes[i + 1] - 128)
                ELSE IF m = 2 THEN (leadByte * 64 + (bytes[i + 1] - 128)) * 64
                                     + (bytes[i + 2] - 128)
                ELSE ((leadByte * 64 + (bytes[i + 1] - 128)) * 64
                         + (bytes[i + 2] - 128)) * 64 + (bytes[i + 3] - 128))
        ELSE <<65533>>)))

UTF8Decode(bytes, first) ==
    Flatten([k \in 1..(Len(bytes) - first + 1) |-> DecodedAt(bytes, first, first + k - 1)])

\* new TextDecoder().decode(bytes): ignoreBOM is false, so a leading byte
\* order mark EF BB BF is consumed and not part of the result.
UTF8Stringify(bytes) ==
    UTF8Decode(bytes, IF Len(bytes) >= 3 /\ SubSeq(bytes, 1, 3) = <<239, 187, 191>>
                      THEN 4 ELSE 1)

-----------------------------------------------------------------------------
(* The Web Crypto primitives the engine calls.  AES and PBKDF2 are not     *)
(* code of the repository: they are modelled by small stand-ins that keep  *)
(* what the engine relies on (a keyed permutation of 16-byte blocks in CBC *)
(* mode with PKCS#7 padding and the errors SubtleCrypto raises; a          *)
(* deterministic function of password and salt) and nothing of their       *)
(* cryptographic strength.                                                 *)

IV_BITS == 16 * 8
HEX_BITS == 4
BlockBytes == 16           \* the AES block, in bytes
DeriveBitsLength == 256    \* the length asked of deriveBits, in bits

Min(a, b) == IF a < b THEN a ELSE b

RECURSIVE Xor(_, _)
Xor(a, b) ==
    IF a = 0 THEN b
    ELSE IF b = 0 THEN a
    ELSE ((a + b) % 2) + 2 * Xor(a \div 2, b \div 2)

XorBlock(x, y) == [i \in 1..BlockBytes |-> Xor(x[i], y[i])]

\* subtle.importKey("raw", bytes, "AES-CBC", ...): only 128, 192 and 256 bit
\* keys are accepted.
ImportAesKey(keyBytes) ==
    IF Len(keyBytes) \in {16, 24, 32} THEN Ok(keyBytes) ELSE Throw

\* Stand-in for the AES key schedule: one round key of a block's size.
RECURSIVE SumEvery(_, _, _)
SumEvery(keyBytes, i, acc) ==
    IF i > Len(keyBytes) THEN acc % 256
    ELSE SumEvery(keyBytes, i + BlockBytes, acc + keyBytes[i] * (1 + (i \div BlockBytes)))

RoundKey(keyBytes) == [i \in 1..BlockBytes |-> SumEvery(keyBytes, i, 7 * i)]

\* Stand-in for the AES block permutation and its inverse.
BlockEncrypt(rk, blk) ==
    [i \in 1..BlockBytes |-> (blk[(i % BlockBytes) + 1] + rk[i]) % 256]
BlockDecrypt(rk, blk) ==
    [i \in 1..BlockBytes |->
        LET j == ((i + BlockBytes - 2) % BlockBytes) + 1
        IN  (blk[j] + 256 - rk[j]) % 256]

\* PKCS#7: 1..16 bytes are always added, each holding their number.
Pkcs7Pad(data) ==
    LET n == BlockBytes - (Len(data) % BlockBytes)
    IN  data \o [i \in 1..n |-> n]

Pkcs7Unpad(data) ==
    LET n == data[Len(data)]
    IN  IF /\ 1 <= n /\ n <= BlockBytes
           /\ \A i \in (Len(data) - n + 1)..Len(data) : data[i] = n
        THEN Ok(SubSeq(data, 1, Len(data) - n))
        ELSE Throw

\* The k-th block of data.
Block(data, k) == SubSeq(data, (k - 1) * BlockBytes + 1, k * BlockBytes)

RECURSIVE CbcEncrypt(_, _, _)
CbcEncrypt(rk, prev, data) ==
    IF data = <<>> THEN <<>>
    ELSE With(BlockEncrypt(rk, XorBlock(Block(data, 1), prev)), LAMBDA c :
             c \o CbcEncrypt(rk, c, SubSeq(data, BlockBytes + 1, Len(data))))

CbcDecrypt(rk, iv, data) ==
    Flatten([k \in 1..(Len(data) \div BlockBytes) |->
                XorBlock(BlockDecrypt(rk, Block(data, k)),
                         IF k = 1 THEN iv ELSE Block(data, k - 1))])

\* subtle.encrypt({name: "AES-CBC", iv}, key, data)
SubtleEncrypt(iv, keyBytes, data) ==
    IF Len(iv) # BlockBytes THEN Throw
    ELSE Ok(CbcEncrypt(RoundKey(keyBytes), iv, Pkcs7Pad(data)))

\* subtle.decrypt({name: "AES-CBC", iv}, key, data): an OperationError when
\* the iv is not 16 bytes, the data is empty or not whole blocks, or the
\* padding of the last block is wrong.
SubtleDecrypt(iv, keyBytes, data) ==
    IF Len(iv) # BlockBytes \/ Len(data) = 0 \/ Len(data) % BlockBytes # 0 THEN Throw
    ELSE Pkcs7Unpad(CbcDecrypt(RoundKey(keyBytes), iv, data))

\* Stand-in for PBKDF2-HMAC-SHA-256: a deterministic mix of password and salt.
RECURSIVE Fold(_, _)
Fold(bytes, h) ==
    IF bytes = <<>> THEN h ELSE Fold(Tail(bytes), (h * 31 + Head(bytes) + 1) % 65521)

DeriveBits(passwordBytes, saltBytes, bits) ==
    With(Fold(saltBytes, Fold(passwordBytes, 17)), LAMBDA seed :
        [i \in 1..(bits \div 8) |->
            (Fold(<<i, seed % 256, seed \div 256>>, seed + i)) % 256])

-----------------------------------------------------------------------------
(* cryptoEngine                                                            *)

\* String.prototype.substring(from, to) on a hex string.
Substring(s, from, to) == SubSeq(s, Min(from, Len(s)) + 1, Min(to, Len(s)))

\* encrypt with the ciphertext before the IV.
EncryptCiphertextFirst(msg, hashedPassword, iv) ==
    With(SubtleEncrypt(iv, ImportAesKey(HexParse(hashedPassword).v).v, UTF8Parse(msg)),
         LAMBDA encrypted : Ok(HexStringify(encrypted.v) \o HexStringify(iv)))

\* encrypt(msg, hashedPassword); iv is the value crypto.getRandomValues drew.
Encrypt(msg, hashedPassword, iv) ==
    With(HexParse(hashedPassword), LAMBDA keyBytes :
    With(IF keyBytes.ok THEN ImportAesKey(keyBytes.v) ELSE Throw, LAMBDA key :
    With(IF key.ok THEN SubtleEncrypt(iv, key.v, UTF8Parse(msg)) ELSE Throw, LAMBDA encrypted :
        IF encrypted.ok
        THEN Ok(HexStringify(iv) \o HexStringify(encrypted.v))
        ELSE Throw)))

\* decrypt(encryptedMsg, hashedPassword)
Decrypt(encryptedMsg, hashedPassword) ==
    With(IV_BITS \div HEX_BITS, LAMBDA ivLength :
    With(HexParse(Substring(encryptedMsg, 0, ivLength)), LAMBDA iv :
    With(Substring(encryptedMsg, ivLength, Len(encryptedMsg)), LAMBDA encrypted :
    With(IF iv.ok THEN HexParse(hashedPassword) ELSE Throw, LAMBDA keyBytes :
    With(IF keyBytes.ok THEN ImportAesKey(keyBytes.v) ELSE Throw, LAMBDA key :
    With(IF key.ok THEN HexParse(encrypted) ELSE Throw, LAMBDA data :
    With(IF data.ok THEN SubtleDecrypt(iv.v, key.v, data.v) ELSE Throw, LAMBDA decrypted :
        IF decrypted.ok THEN Ok(UTF8Stringify(decrypted.v)) ELSE Throw)))))))

\* hashPassword(password, salt)
HashPassword(password, salt) ==
    HexStringify(DeriveBits(UTF8Parse(password), UTF8Parse(salt), DeriveBitsLength))

-----------------------------------------------------------------------------
(* JSON.stringify and JSON.parse                                           *)
(* A JSON value is [t, v]: t is "null", "true", "false", "num" (v the      *)
(* token), "str" (v the code units), "arr" (v the elements) or "obj" (v    *)
(* the members <<name, value>> in order).                                  *)

JNull == [t |-> "null", v |-> <<>>]
JStr(str) == [t |-> "str", v |-> str]
JArr(elems) == [t |-> "arr", v |-> elems]
JObj(members) == [t |-> "obj", v |-> members]

\* The code unit of a hex digit as a number, -1 otherwise.
HexValOfUnit(cu) ==
    IF 48 <= cu /\ cu <= 57 THEN cu - 48
    ELSE IF 97 <= cu /\ cu <= 102 THEN cu - 87
    ELSE IF 65 <= cu /\ cu <= 70 THEN cu - 55
    ELSE -1

\* Four lower-case hex digits, as code units.
Hex4(n) ==
    U(CharAt(HexLower, ((n \div 4096) % 16) + 1) \o CharAt(HexLower, ((n \div 256) % 16) + 1)
      \o CharAt(HexLower, ((n \div 16) % 16) + 1) \o CharAt(HexLower, (n % 16) + 1))

\* QuoteJSONString, one code unit at a time (i is its position in str).
QuoteUnit(str, i) ==
    LET cu == str[i] IN
    IF cu = 34 THEN U("\\\"")
    ELSE IF cu = 92 THEN U("\\\\")
    ELSE IF cu = 8 THEN U("\\b")
    ELSE IF cu = 12 THEN U("\\f")
    ELSE IF cu = 10 THEN U("\\n")
    ELSE IF cu = 13 THEN U("\\r")
    ELSE IF cu = 9 THEN U("\\t")
    ELSE IF cu < 32 THEN U("\\u") \o Hex4(cu)
    ELSE IF IsHighSurrogate(cu) /\ i < Len(str) /\ IsLowSurrogate(str[i + 1]) THEN <<cu>>
    ELSE IF IsLowSurrogate(cu) /\ i > 1 /\ IsHighSurrogate(str[i - 1]) THEN <<cu>>
    ELSE IF IsHighSurrogate(cu) \/ IsLowSurrogate(cu) THEN U("\\u") \o Hex4(cu)
    ELSE <<cu>>

QuoteJSONString(str) ==
    U("\"") \o Flatten([i \in 1..Len(str) |-> QuoteUnit(str, i)]) \o U("\"")

RECURSIVE JoinWithComma(_)
JoinWithComma(parts) ==
    IF parts = <<>> THEN <<>>
    ELSE IF Len(parts) = 1 THEN parts[1]
    ELSE parts[1] \o U(",") \o JoinWithComma(Tail(parts))

\* JSON.stringify of the values the program serializes: strings, objects
\* with string-valued members, and arrays of them.
RECURSIVE JSONStringify(_)
JSONStringify(val) ==
    IF val.t = "str" THEN QuoteJSONString(val.v)
    ELSE IF val.t = "arr"
    THEN U("[") \o JoinWithComma([i \in 1..Len(val.v) |-> JSONStringify(val.v[i])]) \o U("]")
    ELSE IF val.t = "obj"
    THEN U("{") \o JoinWithComma([i \in 1..Len(val.v) |->
                    QuoteJSONString(val.v[i][1]) \o U(":") \o JSONStringify(val.v[i][2])])
               \o U("}")
    ELSE IF val.t = "num" THEN val.v
    ELSE U(val.t)

JFail == [ok |-> FALSE, v |-> <<>>, pos |-> 0]
JOk(val, pos) == [ok |-> TRUE, v |-> val, pos |-> pos]

\* JSON white space: tab, line feed, carriage return, space.
RECURSIVE SkipWs(_, _)
SkipWs(s, i) ==
    IF i <= Len(s) /\ s[i] \in {9, 10, 13, 32} THEN SkipWs(s, i + 1) ELSE i

IsDigit(cu) == 48 <= cu /\ cu <= 57

RECURSIVE SkipDigits(_, _)
SkipDigits(s, i) == IF i <= Len(s) /\ IsDigit(s[i]) THEN SkipDigits(s, i + 1) ELSE i

StartsWith(s, i, lit) ==
    i + Len(lit) - 1 <= Len(s) /\ SubSeq(s, i, i + Len(lit) - 1) = lit

\* The characters of a string literal after its opening quote: the run of
\* plain characters up to the next quote, backslash or control character is
\* taken at once.
RECURSIVE JsonStringBody(_, _, _)
JsonStringBody(s, from, sofar) ==
    With({j \in from..Len(s) : s[j] = 34 \/ s[j] = 92 \/ s[j] < 32}, LAMBDA stops :
        IF stops = {} THEN JFail
        ELSE With(CHOOSE j \in stops : \A k \in stops : j <= k, LAMBDA i :
             With(sofar \o SubSeq(s, from, i - 1), LAMBDA acc :
                IF s[i] = 34 THEN JOk(JStr(acc), i + 1)
                ELSE IF s[i] < 32 THEN JFail
                ELSE IF i + 1 > Len(s) THEN JFail
                ELSE With(s[i + 1], LAMBDA e :
                     IF e \in {34, 92, 47} THEN JsonStringBody(s, i + 2, Append(acc, e))
                     ELSE IF e = 98 THEN JsonStringBody(s, i + 2, Append(acc, 8))
                     ELSE IF e = 102 THEN JsonStringBody(s, i + 2, Append(acc, 12))
                     ELSE IF e = 110 THEN JsonStringBody(s, i + 2, Append(acc, 10))
                     ELSE IF e = 114 THEN JsonStringBody(s, i + 2, Append(acc, 13))
                     ELSE IF e = 116 THEN JsonStringBody(s, i + 2, Append(acc, 9))
                     ELSE IF /\ e = 117
                             /\ i + 5 <= Len(s)
                             /\ \A k \in 2..5 : HexValOfUnit(s[i + k]) >= 0
                     THEN JsonStringBody(s, i + 6,
                              Append(acc, 4096 * HexValOfUnit(s[i + 2])
                                          + 256 * HexValOfUnit(s[i + 3])
                                          + 16 * HexValOfUnit(s[i + 4])
                                          + HexValOfUnit(s[i + 5])))
                     ELSE JFail))))

\* A number token starting at i.
JsonNumber(s, i) ==
    With(IF s[i] = 45 THEN i + 1 ELSE i, LAMBDA i1 :                      \* -
    With(IF i1 <= Len(s) /\ s[i1] = 48 THEN i1 + 1                        \* 0
         ELSE SkipDigits(s, i1), LAMBDA i2 :
    With(IF i2 + 1 <= Len(s) /\ s[i2] = 46 /\ IsDigit(s[i2 + 1])
         THEN SkipDigits(s, i2 + 1) ELSE i2, LAMBDA i3 :                   \* fraction
    With(IF i3 <= Len(s) /\ s[i3] \in {69, 101}
         THEN (IF i3 + 1 <= Len(s) /\ s[i3 + 1] \in {43, 45} THEN i3 + 2 ELSE i3 + 1)
         ELSE i3, LAMBDA j :
    With(SkipDigits(s, j), LAMBDA digitsEnd :
    With(IF j > i3 /\ digitsEnd > j THEN digitsEnd ELSE i3, LAMBDA i4 :
        IF i2 = i1 THEN JFail
        ELSE IF (i2 <= Len(s) /\ s[i2] = 46) /\ i3 = i2 THEN JFail
        ELSE IF (i3 <= Len(s) /\ s[i3] \in {69, 101}) /\ i4 = i3 THEN JFail
        ELSE JOk([t |-> "num", v |-> SubSeq(s, i, i4 - 1)], i4)))))))

RECURSIVE JsonValue(_, _)
RECURSIVE JsonElements(_, _, _)
RECURSIVE JsonMembers(_, _, _)

\* The elements of an array after "[" (or after a comma), up to "]".
JsonElements(s, i, acc) ==
    With(JsonValue(s, SkipWs(s, i)), LAMBDA e :
    With(IF e.ok THEN SkipWs(s, e.pos) ELSE 0, LAMBDA j :
        IF ~e.ok \/ j > Len(s) THEN JFail
        ELSE IF s[j] = 93 THEN JOk(JArr(Append(acc, e.v)), j + 1)
        ELSE IF s[j] = 44 THEN JsonElements(s, j + 1, Append(acc, e.v))
        ELSE JFail))

\* The members of an object after "{" (or after a comma), up to "}".
JsonMembers(s, i, acc) ==
    With(SkipWs(s, i), LAMBDA k :
    With(IF k <= Len(s) /\ s[k] = 34 THEN JsonStringBody(s, k + 1, <<>>) ELSE JFail,
         LAMBDA name :
    With(IF name.ok THEN SkipWs(s, name.pos) ELSE 0, LAMBDA c :
    With(IF name.ok /\ c <= Len(s) /\ s[c] = 58
         THEN JsonValue(s, SkipWs(s, c + 1)) ELSE JFail, LAMBDA val :
    With(IF val.ok THEN SkipWs(s, val.pos) ELSE 0, LAMBDA j :
        IF ~val.ok \/ j > Len(s) THEN JFail
        ELSE IF s[j] = 125 THEN JOk(JObj(Append(acc, <<name.v.v, val.v>>)), j + 1)
        ELSE IF s[j] = 44 THEN JsonMembers(s, j + 1, Append(acc, <<name.v.v, val.v>>))
        ELSE JFail)))))

JsonValue(s, i) ==
    IF i > Len(s) THEN JFail
    ELSE IF s[i] = 34 THEN JsonStringBody(s, i + 1, <<>>)
    ELSE IF s[i] = 91
    THEN With(SkipWs(s, i + 1), LAMBDA j :
             IF j <= Len(s) /\ s[j] = 93 THEN JOk(JArr(<<>>), j + 1)
             ELSE JsonElements(s, j, <<>>))
    ELSE IF s[i] = 123
    THEN With(SkipWs(s, i + 1), LAMBDA j :
             IF j <= Len(s) /\ s[j] = 125 THEN JOk(JObj(<<>>), j + 1)
             ELSE JsonMembers(s, j, <<>>))
    ELSE IF StartsWith(s, i, U("true")) THEN JOk([t |-> "true", v |-> <<>>], i + 4)
    ELSE IF StartsWith(s, i, U("false")) THEN JOk([t |-> "false", v |-> <<>>], i + 5)
    ELSE IF StartsWith(s, i, U("null")) THEN JOk(JNull, i + 4)
    ELSE IF s[i] = 45 \/ IsDigit(s[i]) THEN JsonNumber(s, i)
    ELSE JFail

\* JSON.parse(text): the value, or Throw (a SyntaxError).
JSONParse(text) ==
    With(JsonValue(text, SkipWs(text, 1)), LAMBDA r :
        IF r.ok /\ SkipWs(text, r.pos) > Len(text) THEN Ok(r.v) ELSE Throw)

-----------------------------------------------------------------------------
(* The pages the runtime is loaded in: what encodeAndGenerateFile built    *)

\* The ids processHtmlContent gives the marked regions of a page.
SectionIds == {"staticrypt-section-0", "staticrypt-section-1"}

\* The array processHtmlContent collects for a page with two marked regions.
EncryptedSections ==
    JArr(<< JObj(<< <<U("id"), JStr(U("staticrypt-section-0"))>>,
                    <<U("content"), JStr(U("<p>A</p>"))>> >>),
            JObj(<< <<U("id"), JStr(U("staticrypt-section-1"))>>,
                    <<U("content"), JStr(U("<p>B</p>"))>> >>) >>)

\* An array whose first element has no content: what a page holds that was
\* not built by processHtmlContent.
SectionsWithoutContent ==
    JArr(<< JObj(<< <<U("id"), JStr(U("staticrypt-section-0"))>> >>),
            JObj(<< <<U("id"), JStr(U("staticrypt-section-1"))>>,
                    <<U("content"), JStr(U("<p>B</p>"))>> >>) >>)

\* The pages of the origin: each was encoded with its own password; page3
\* holds the array with the element that has no content.
Docs == {"page1", "page2", "page3"}
DocPassword(doc) == IF doc \in {"page1", "page3"} THEN "pw" ELSE "ng"
DocSections(doc) == IF doc = "page3" THEN SectionsWithoutContent ELSE EncryptedSections

\* The passwords a user types.
Passwords == {"", "pw"}

\* The salt of the deployment (config.salt).
Salt == U("s1")

\* hashPassword of every password a user types, with the deployment's salt.
KeyOf == Tabulated([p \in Passwords |-> HashPassword(U(p), Salt)])

\* The key each page was encoded with: hashPassword of its password.
DocKey == Tabulated([d \in Docs |-> HashPassword(U(DocPassword(d)), Salt)])

\* The keys the runtimes meet: those of the passwords typed and those that
\* were remembered on a page of the origin.
Keys == {KeyOf[p] : p \in Passwords} \cup {DocKey[d] : d \in Docs}

\* The value crypto.getRandomValues returned when the page was encoded.
DocIV(doc) ==
    [i \in 1..(IV_BITS \div 8) |->
        IF doc = "page1" THEN (37 * i) % 256 ELSE (211 * i + 5) % 256]

\* encodeWithHashedPassword(encryptedContent, hashedPassword) of codec.js.
EncodeWithHashedPassword(msg, hashedPassword, iv) == Encrypt(msg, hashedPassword, iv)

\* config.encryptedContent of each page.
EncryptedContent ==
    Tabulated([d \in Docs |->
        EncodeWithHashedPassword(JSONStringify(DocSections(d)),
                                 DocKey[d], DocIV(d)).v])

-----------------------------------------------------------------------------
(* Numbers as strings, localStorage, and the JavaScript operations the     *)
(* runtimes apply to the parsed content                                    *)

Digits == "0123456789"

\* Number.prototype.toString() of an integer.
RECURSIVE NumberToString(_)
NumberToString(n) ==
    IF n < 0 THEN "-" \o NumberToString(0 - n)
    ELSE IF n < 10 THEN CharAt(Digits, n + 1)
    ELSE NumberToString(n \div 10) \o CharAt(Digits, (n % 10) + 1)

DigitVal(c) ==
    IF \E i \in 1..10 : CharAt(Digits, i) = c
    THEN (CHOOSE i \in 1..10 : CharAt(Digits, i) = c) - 1
    ELSE -1

\* The value of the longest run of digits of str from i, in the given radix;
\* acc is the value so far and any tells whether a digit was read.
RECURSIVE ParseDigits(_, _, _, _, _)
ParseDigits(str, i, radix, acc, any) ==
    With(IF i > Len(str) THEN -1
         ELSE IF radix = 16 THEN HexVal(CharAt(str, i))
         ELSE DigitVal(CharAt(str, i)), LAMBDA d :
        IF d < 0 THEN (IF any THEN Num(acc) ELSE NaN)
        ELSE ParseDigits(str, i + 1, radix, acc * radix + d, TRUE))

RECURSIVE SkipWhiteSpace(_, _)
SkipWhiteSpace(str, i) ==
    IF i <= Len(str) /\ IsWhiteSpace(CharAt(str, i)) THEN SkipWhiteSpace(str, i + 1) ELSE i

\* parseInt(str) with no radix: white space, a sign, a 0x prefix (then hex),
\* and the longest run of digits.
ParseInt(str) ==
    With(SkipWhiteSpace(str, 1), LAMBDA i :
    With(IF i <= Len(str) /\ CharAt(str, i) \in {"+", "-"} THEN i + 1 ELSE i, LAMBDA j :
    With(IF j + 1 <= Len(str) /\ SubSeq(str, j, j + 1) \in {"0x", "0X"}
         THEN ParseDigits(str, j + 2, 16, 0, FALSE)
         ELSE ParseDigits(str, j, 10, 0, FALSE), LAMBDA r :
        IF r.nan THEN NaN
        ELSE IF i <= Len(str) /\ CharAt(str, i) = "-" THEN Num(0 - r.n)
        ELSE r)))

\* a < b and a > b for a number a and a parseInt result b: every comparison
\* with NaN is false.
LessThan(a, b) == ~b.nan /\ a < b.n
GreaterThan(a, b) == ~b.nan /\ a > b.n

MsPerDay == 24 * 60 * 60 * 1000

\* localStorage is a map from item names to strings.
EmptyStorage == [n \in {} |-> ""]
HasItem(st, name) == name \in DOMAIN st
\* getItem: null for a missing item; null and "" are both falsy, and the
\* runtimes only ever test the result for truthiness before using it.
GetItem(st, name) == IF name \in DOMAIN st THEN st[name] ELSE ""
SetItem(st, name, value) ==
    [n \in DOMAIN st \cup {name} |-> IF n = name THEN value ELSE st[n]]
RemoveItem(st, name) == [n \in DOMAIN st \ {name} |-> st[n]]

\* The scope "*" is the whole document (the names without a suffix).
WholeDocument == "*"
Scopes == {WholeDocument} \cup SectionIds
PassphraseItemUnsuffixed(scope) == "staticrypt_passphrase"
PassphraseItem(scope) ==
    IF scope = WholeDocument THEN "staticrypt_passphrase"
    ELSE "staticrypt_passphrase_" \o scope
ExpirationItem(scope) ==
    IF scope = WholeDocument THEN "staticrypt_expiration"
    ELSE "staticrypt_expiration_" \o scope

\* The "store password if remember is checked" block of the three runtimes,
\* inside its if: the key, then the expiration when the duration is positive.
RememberInHours(st, scope, hashedPassword, durationInDays, time) ==
    SetItem(SetItem(st, PassphraseItem(scope), hashedPassword),
            ExpirationItem(scope), NumberToString(time + durationInDays * 60 * 60 * 1000))
RememberPassphrase(st, scope, hashedPassword, durationInDays, time) ==
    With(SetItem(st, PassphraseItem(scope),
                 CHOOSE p \in Passwords : KeyOf[p] = hashedPassword), LAMBDA withKey :
        IF durationInDays > 0
        THEN SetItem(withKey, ExpirationItem(scope),
                     NumberToString(time + durationInDays * 24 * 60 * 60 * 1000))
        ELSE withKey)
Remember(st, scope, hashedPassword, durationInDays, time) ==
    LET withKey == SetItem(st, PassphraseItem(scope), hashedPassword)
    IN  IF durationInDays > 0
        THEN SetItem(withKey, ExpirationItem(scope),
                     NumberToString(time + durationInDays * 24 * 60 * 60 * 1000))
        ELSE withKey

\* if (rememberChecked && config.isRememberEnabled) { ... }
RememberAlways(st, checked, isRememberEnabled, scope, hashedPassword, durationInDays, time) ==
    Remember(st, scope, hashedPassword, durationInDays, time)
RememberIfChecked(st, checked, isRememberEnabled, scope, hashedPassword, durationInDays, time) ==
    IF checked /\ isRememberEnabled
    THEN Remember(st, scope, hashedPassword, durationInDays, time)
    ELSE st

\* The two removeItem calls that drop a remembered credential.
ForgetKeyOnly(st, scope) == RemoveItem(st, PassphraseItem(scope))
Forget(st, scope) == RemoveItem(RemoveItem(st, PassphraseItem(scope)), ExpirationItem(scope))

Undefined == [t |-> "undefined", v |-> <<>>]

\* A test that takes every value for falsy.
Falsy(val) == FALSE

\* ToBoolean of a parsed value.
Truthy(val) ==
    IF val.t \in {"null", "false", "undefined"} THEN FALSE
    ELSE IF val.t = "str" THEN val.v # <<>>
    ELSE IF val.t = "num"
    THEN \E i \in 1..Len(val.v) :
            /\ val.v[i] \in 49..57
            /\ \A k \in 1..i : val.v[k] \notin {69, 101}
    ELSE TRUE

\* val[name] for a parsed value: a TypeError on null, undefined for a
\* missing member and for the values that are not objects.
GetProp(val, name) ==
    IF val.t \in {"null", "undefined"} THEN Throw
    ELSE IF val.t = "obj" /\ \E i \in 1..Len(val.v) : val.v[i][1] = name
    THEN Ok(val.v[CHOOSE i \in 1..Len(val.v) :
                    /\ val.v[i][1] = name
                    /\ \A k \in (i + 1)..Len(val.v) : val.v[k][1] # name][2])
    ELSE Ok(Undefined)

\* s.id === sectionId
IdIs(idProp, sectionId) == idProp.t = "str" /\ idProp.v = U(sectionId)

\* sections.find(s => s.id === sectionId): a TypeError when sections is no
\* array or an element before the match is null.
Find(sections, sectionId) ==
    IF sections.t # "arr" THEN Throw
    ELSE With([i \in 1..Len(sections.v) |-> GetProp(sections.v[i], U("id"))], LAMBDA id :
         LET isMatch(i) == id[i].ok /\ IdIs(id[i].v, sectionId)
             n == Len(sections.v)
         IN  IF \E i \in 1..n : ~id[i].ok /\ \A k \in 1..(i - 1) : ~isMatch(k) THEN Throw
             ELSE IF \E i \in 1..n : isMatch(i)
             THEN Ok(sections.v[CHOOSE i \in 1..n : isMatch(i) /\ \A k \in 1..(i - 1) : ~isMatch(k)])
             ELSE Ok(Undefined))

\* `${val}` in a template literal and String(val).
RECURSIVE TemplateString(_)
TemplateString(val) ==
    IF val.t = "str" \/ val.t = "num" THEN val.v
    ELSE IF val.t = "obj" THEN U("[object Object]")
    ELSE IF val.t = "arr"
    THEN JoinWithComma([i \in 1..Len(val.v) |->
            IF val.v[i].t \in {"null", "undefined"} THEN <<>> ELSE TemplateString(val.v[i])])
    ELSE U(val.t)

\* The string temp.innerHTML becomes: as String(val), but "" for null.
InnerHTML(val) == IF val.t = "null" THEN <<>> ELSE TemplateString(val)

\* The document: the placeholders present and what was inserted at each.
Dom(ph, ins) == [placeholders |-> ph, inserted |-> ins]

\* querySelector(`[data-staticrypt-id="${id}"]`): the placeholder carrying
\* that id, "" when there is none.
QuerySelector(dom, id) ==
    IF \E s \in dom.placeholders : U(s) = id
    THEN CHOOSE s \in dom.placeholders : U(s) = id
    ELSE ""

\* if (placeholder) { temp.innerHTML = content; insert the nodes before the
\* placeholder; placeholder.remove() }
LeavePlaceholder(dom, id, content) == dom
ReplaceEveryPlaceholder(dom, id, content) ==
    Dom({}, [s \in SectionIds |->
                IF s \in dom.placeholders THEN Append(dom.inserted[s], InnerHTML(content))
                ELSE dom.inserted[s]])
ReplaceOrInsertAgain(dom, id, content) ==
    With(CHOOSE s \in SectionIds : U(s) = id, LAMBDA section :
        Dom(dom.placeholders \ {section},
            [dom.inserted EXCEPT ![section] = Append(@, InnerHTML(content))]))
ReplacePlaceholder(dom, id, content) ==
    With(QuerySelector(dom, id), LAMBDA placeholder :
        IF placeholder = "" THEN dom
        ELSE Dom(dom.placeholders \ {placeholder},
                 [dom.inserted EXCEPT ![placeholder] = Append(@, InnerHTML(content))]))

\* for (const section of sections) { replace the placeholder of section.id }
\* from element i on.  A TypeError (an element that is null) leaves the
\* replacements already made in place.
RECURSIVE ReplaceFrom(_, _, _)
ReplaceFrom(elems, i, dom) ==
    IF i > Len(elems) THEN [ok |-> TRUE, dom |-> dom]
    ELSE With(GetProp(elems[i], U("id")), LAMBDA id :
             IF ~id.ok THEN [ok |-> FALSE, dom |-> dom]
             ELSE ReplaceFrom(elems, i + 1,
                     ReplacePlaceholder(dom, TemplateString(id.v),
                                        GetProp(elems[i], U("content")).v)))

\* The whole loop: a value that is not iterable throws before any
\* replacement; the characters of a string have no id.
ReplaceAll(sections, dom) ==
    IF sections.t = "arr" THEN ReplaceFrom(sections.v, 1, dom)
    ELSE IF sections.t = "str" THEN [ok |-> TRUE, dom |-> dom]
    ELSE [ok |-> FALSE, dom |-> dom]

-----------------------------------------------------------------------------
(* The client runtimes                                                     *)

Variants == {"whole", "init", "section"}

MaxRememberDays == 1
MaxDayTicks == 2
MaxPending == 2

\* window.staticryptConfig of the pages of the origin: page1 as built with
\* each setting of --remember, page2 as built with the default.
Configs ==
    {[doc |-> "page1", isRememberEnabled |-> TRUE, rememberDurationInDays |-> days] :
        days \in 0..MaxRememberDays}
    \cup {[doc |-> "page1", isRememberEnabled |-> FALSE, rememberDurationInDays |-> 0],
          [doc |-> "page2", isRememberEnabled |-> TRUE, rememberDurationInDays |-> 1]}

\* cryptoEngine.decrypt(config.encryptedContent, key) and JSON.parse of its
\* result, for every page and every key of the model.
Decrypted == Tabulated([d \in Docs, k \in Keys |-> Decrypt(EncryptedContent[d], k)])
Parsed ==
    Tabulated([d \in Docs, k \in Keys |->
        With(Decrypted[d, k], LAMBDA decrypted :
            IF decrypted.ok THEN JSONParse(decrypted.v) ELSE Throw)])

\* codec.decode(encoded, hashedPassword, salt) of the init runtime.
CodecDecode(doc, hashedPassword) ==
    With(Decrypted[doc, hashedPassword], LAMBDA decrypted :
        [success |-> decrypted.ok,
         decoded |-> IF decrypted.ok THEN decrypted.v ELSE <<>>])

AlertText == "wrong password"

\* An async call suspended at an await, with the values it captured.
Attempt(kind, sectionId, password, hashedPassword, checked) ==
    [kind |-> kind, sectionId |-> sectionId, password |-> password,
     hashedPassword |-> hashedPassword, rememberChecked |-> checked]

\* pending is a bag: the calls in flight resolve in any order.
Suspend(calls, a) == calls (+) SetToBag({a})
Resume(calls, a) == calls (-) SetToBag({a})

NoExperiment == [stage |-> "none"]

InitPage ==
    /\ placeholders = SectionIds
    /\ inserted = [s \in SectionIds |-> <<>>]
    /\ modalDisplay = "none"
    /\ currentSectionId = ""
    /\ passwordInput = ""
    /\ rememberChecked = FALSE
    /\ decryptedContent = JNull
    /\ decryptedSections = [s \in {} |-> 0]
    /\ pending = EmptyBag
    /\ lastAlert = ""
    /\ loaded = FALSE

Init ==
    /\ codec = NoExperiment
    /\ variant \in Variants
    /\ config \in Configs
    /\ storage = EmptyStorage
    /\ now = 0
    /\ InitPage

\* The page (or another page of the origin, built with another config) is
\* loaded anew: the script state and the document start over, localStorage
\* and the clock do not.
LoadPage(cfg) ==
    /\ loaded
    /\ config' = cfg
    /\ placeholders' = SectionIds
    /\ inserted' = [s \in SectionIds |-> <<>>]
    /\ modalDisplay' = "none"
    /\ currentSectionId' = ""
    /\ passwordInput' = ""
    /\ rememberChecked' = FALSE
    /\ decryptedContent' = JNull
    /\ decryptedSections' = [s \in {} |-> 0]
    /\ pending' = EmptyBag
    /\ lastAlert' = ""
    /\ loaded' = FALSE
    /\ UNCHANGED <<codec, variant, storage, now>>

\* new Date().getTime() advances.
Tick(ms) ==
    /\ now + ms <= MaxDayTicks * MsPerDay
    /\ now' = now + ms
    /\ UNCHANGED <<codec, variant, config, placeholders, inserted, modalDisplay,
                   currentSectionId, passwordInput, rememberChecked, storage,
                   decryptedContent, decryptedSections, pending, lastAlert, loaded>>

\* The user types into #staticrypt-modal-password.
TypePassword(p) ==
    /\ loaded /\ modalDisplay = "block"
    /\ passwordInput # p
    /\ passwordInput' = p
    /\ lastAlert' = ""
    /\ UNCHANGED <<codec, variant, config, placeholders, inserted, modalDisplay,
                   currentSectionId, rememberChecked, storage, now,
                   decryptedContent, decryptedSections, pending, loaded>>

\* The user clicks #staticrypt-modal-remember.
ToggleRemember ==
    /\ loaded /\ modalDisplay = "block"
    /\ rememberChecked' = ~rememberChecked
    /\ lastAlert' = ""
    /\ UNCHANGED <<codec, variant, config, placeholders, inserted, modalDisplay,
                   currentSectionId, passwordInput, storage, now,
                   decryptedContent, decryptedSections, pending, loaded>>

\* closeBtn.onclick / window.onclick on the backdrop.
CloseModal ==
    /\ loaded /\ modalDisplay = "block"
    /\ modalDisplay' = "none"
    /\ passwordInput' = IF variant = "section" THEN "" ELSE passwordInput
    /\ lastAlert' = ""
    /\ UNCHANGED <<codec, variant, config, placeholders, inserted,
                   currentSectionId, rememberChecked, storage, now,
                   decryptedContent, decryptedSections, pending, loaded>>

\* document.addEventListener('DOMContentLoaded', ...).  The whole-document
\* runtime then tries the remembered password: the call is suspended at its
\* await of cryptoEngine.decrypt.
DOMContentLoaded ==
    /\ ~loaded
    /\ loaded' = TRUE
    /\ pending' =
        IF variant = "whole" /\ config.isRememberEnabled
        THEN With(GetItem(storage, PassphraseItem(WholeDocument)), LAMBDA hashedPassword :
             With(GetItem(storage, ExpirationItem(WholeDocument)), LAMBDA expiration :
                 IF hashedPassword # ""
                    /\ (expiration = "" \/ LessThan(now, ParseInt(expiration)))
                 THEN Suspend(pending, Attempt("load", "", "", hashedPassword, FALSE))
                 ELSE pending))
        ELSE pending
    /\ lastAlert' = ""
    /\ UNCHANGED <<codec, variant, config, placeholders, inserted, modalDisplay,
                   currentSectionId, passwordInput, rememberChecked, storage, now,
                   decryptedContent, decryptedSections>>

\* tryRememberedPassword without its first line.
TryRememberedPasswordUnguarded(sectionId) ==
    With(GetItem(storage, PassphraseItem(sectionId)), LAMBDA hashedPassword :
    With(GetItem(storage, ExpirationItem(sectionId)), LAMBDA expiration :
        IF hashedPassword = ""
           \/ (expiration # "" /\ GreaterThan(now, ParseInt(expiration)))
        THEN [storage |-> Forget(storage, sectionId), calls |-> EmptyBag]
        ELSE [storage |-> storage,
              calls |-> SetToBag({Attempt("remembered", sectionId, "", hashedPassword,
                                          FALSE)})]))

\* The synchronous part of tryRememberedPassword(sectionId) of the
\* per-section runtime: what it leaves in localStorage, and the call it
\* suspends at its await of cryptoEngine.decrypt (none when it returned).
TryRememberedPassword(sectionId) ==
    With(GetItem(storage, PassphraseItem(sectionId)), LAMBDA hashedPassword :
    With(GetItem(storage, ExpirationItem(sectionId)), LAMBDA expiration :
        IF ~config.isRememberEnabled THEN [storage |-> storage, calls |-> EmptyBag]
        ELSE IF hashedPassword = ""
                \/ (expiration # "" /\ GreaterThan(now, ParseInt(expiration)))
        THEN [storage |-> Forget(storage, sectionId), calls |-> EmptyBag]
        ELSE [storage |-> storage,
              calls |-> SetToBag({Attempt("remembered", sectionId, "", hashedPassword,
                                          FALSE)})]))

\* exports.showPasswordPrompt(sectionId) of the three runtimes.
ShowPasswordPrompt(sectionId) ==
    /\ loaded
    /\ lastAlert' = ""
    /\ IF variant = "section" /\ sectionId \in DOMAIN decryptedSections
       THEN With(ReplacePlaceholder(Dom(placeholders, inserted), U(sectionId),
                                    decryptedSections[sectionId].content), LAMBDA dom :
                /\ placeholders' = dom.placeholders
                /\ inserted' = dom.inserted
                /\ UNCHANGED <<modalDisplay, currentSectionId, storage, pending>>)
       ELSE IF variant = "section"
       THEN With(TryRememberedPassword(sectionId), LAMBDA try :
                /\ BagCardinality(pending (+) try.calls) <= MaxPending
                /\ currentSectionId' = sectionId
                /\ modalDisplay' = "block"
                /\ storage' = try.storage
                /\ pending' = pending (+) try.calls
                /\ UNCHANGED <<placeholders, inserted>>)
       ELSE /\ modalDisplay' = "block"
            /\ currentSectionId' = sectionId
            /\ UNCHANGED <<placeholders, inserted, storage, pending>>
    /\ UNCHANGED <<codec, variant, config, passwordInput, rememberChecked, now,
                   decryptedContent, decryptedSections, loaded>>

\* The part of decryptSection(sectionId) after the decryption block of the
\* whole-document runtime: find the section in the cache and replace its
\* placeholder.  result is true, false, or "throw" for the TypeError of
\* decryptedContent.find.
FindAndReplace(content, sectionId, dom) ==
    With(Find(content, sectionId), LAMBDA section :
        IF ~section.ok THEN [result |-> "throw", dom |-> dom]
        ELSE IF Truthy(section.v) /\ QuerySelector(dom, U(sectionId)) # ""
        THEN [result |-> "true",
              dom |-> ReplacePlaceholder(dom, U(sectionId),
                                         GetProp(section.v, U("content")).v)]
        ELSE [result |-> "false", dom |-> dom])

\* The submit handler of the modal form, up to its first await.
Submit ==
    /\ loaded /\ modalDisplay = "block"
    /\ lastAlert' = ""
    /\ IF variant = "whole" /\ Truthy(decryptedContent)
       THEN With(FindAndReplace(decryptedContent, currentSectionId,
                                Dom(placeholders, inserted)), LAMBDA r :
                /\ placeholders' = r.dom.placeholders
                /\ inserted' = r.dom.inserted
                /\ modalDisplay' = IF r.result = "true" THEN "none" ELSE modalDisplay
                /\ UNCHANGED pending)
       ELSE IF variant = "section" /\ currentSectionId = ""
       THEN UNCHANGED <<placeholders, inserted, modalDisplay, pending>>
       ELSE /\ BagCardinality(pending) < MaxPending
            /\ pending' = Suspend(pending,
                    Attempt("submit", currentSectionId, passwordInput, "",
                            IF variant = "whole" THEN FALSE ELSE rememberChecked))
            /\ UNCHANGED <<placeholders, inserted, modalDisplay>>
    /\ UNCHANGED <<codec, variant, config, currentSectionId, passwordInput,
                   rememberChecked, storage, now, decryptedContent,
                   decryptedSections, loaded>>

\* decryptSection(sectionId) of the whole-document runtime resumes after its
\* awaits (it found the cache empty when it was called), and the submit
\* handler that awaits it hides the modal on true.
DecryptSection(a) ==
    /\ a \in BagToSet(pending)
    /\ variant = "whole" /\ a.kind = "submit"
    /\ With(KeyOf[a.password], LAMBDA hashedPassword :
       With(Parsed[config.doc, hashedPassword], LAMBDA parsed :
           IF ~parsed.ok
           THEN /\ lastAlert' = AlertText
                /\ UNCHANGED <<decryptedContent, storage, placeholders, inserted,
                               modalDisplay>>
           ELSE With(FindAndReplace(parsed.v, a.sectionId, Dom(placeholders, inserted)),
                     LAMBDA r :
                    /\ decryptedContent' = parsed.v
                    /\ storage' =
                        RememberIfChecked(storage, rememberChecked,
                                          config.isRememberEnabled, WholeDocument,
                                          hashedPassword, config.rememberDurationInDays, now)
                    /\ placeholders' = r.dom.placeholders
                    /\ inserted' = r.dom.inserted
                    /\ modalDisplay' = IF r.result = "true" THEN "none" ELSE modalDisplay
                    /\ lastAlert' = "")))
    /\ pending' = Resume(pending, a)
    /\ UNCHANGED <<codec, variant, config, currentSectionId, passwordInput,
                   rememberChecked, now, decryptedSections, loaded>>

\* The remembered-password block of the whole-document runtime's
\* DOMContentLoaded handler resumes after its await.
DecryptAllSections(a) ==
    /\ a \in BagToSet(pending)
    /\ variant = "whole" /\ a.kind = "load"
    /\ With(Parsed[config.doc, a.hashedPassword], LAMBDA parsed :
       With(IF parsed.ok THEN ReplaceAll(parsed.v, Dom(placeholders, inserted))
            ELSE [ok |-> FALSE, dom |-> Dom(placeholders, inserted)], LAMBDA r :
           /\ decryptedContent' = IF parsed.ok THEN parsed.v ELSE decryptedContent
           /\ placeholders' = r.dom.placeholders
           /\ inserted' = r.dom.inserted
           /\ storage' = IF r.ok THEN storage ELSE Forget(storage, WholeDocument)))
    /\ pending' = Resume(pending, a)
    /\ lastAlert' = ""
    /\ UNCHANGED <<codec, variant, config, modalDisplay, currentSectionId,
                   passwordInput, rememberChecked, now, decryptedSections, loaded>>

\* decryptAndReplaceHtml(hashedPassword) of the init runtime.
DecryptAndReplaceHtml(hashedPassword, dom) ==
    With(CodecDecode(config.doc, hashedPassword), LAMBDA result :
    With(Parsed[config.doc, hashedPassword], LAMBDA encryptedSections :
        IF ~result.success THEN [ok |-> FALSE, dom |-> dom]
        ELSE IF ~encryptedSections.ok THEN [ok |-> FALSE, dom |-> dom]
        ELSE ReplaceAll(encryptedSections.v, dom)))

\* handleDecryptionOfPage(password, isRememberChecked) of the init runtime
\* resumes after its awaits, and the submit handler that awaits it hides the
\* modal or alerts.
HandleDecryptionOfPage(a) ==
    /\ a \in BagToSet(pending)
    /\ variant = "init" /\ a.kind = "submit"
    /\ With(KeyOf[a.password], LAMBDA hashedPassword :
       With(DecryptAndReplaceHtml(hashedPassword, Dom(placeholders, inserted)), LAMBDA r :
       With(r.ok, LAMBDA isSuccessful :
           /\ placeholders' = r.dom.placeholders
           /\ inserted' = r.dom.inserted
           /\ storage' =
                RememberIfChecked(storage, isSuccessful /\ a.rememberChecked,
                                  config.isRememberEnabled, WholeDocument,
                                  hashedPassword, config.rememberDurationInDays, now)
           /\ modalDisplay' = IF isSuccessful THEN "none" ELSE modalDisplay
           /\ lastAlert' = IF isSuccessful THEN "" ELSE AlertText)))
    /\ pending' = Resume(pending, a)
    /\ UNCHANGED <<codec, variant, config, currentSectionId, passwordInput,
                   rememberChecked, now, decryptedContent, decryptedSections, loaded>>

\* decryptedSections.set(sectionId, {content, password})
MapSet(map, sectionId, content, password) ==
    [s \in DOMAIN map \cup {sectionId} |->
        IF s = sectionId THEN [content |-> content, password |-> password] ELSE map[s]]

\* const section = sections.find(...) of the per-section runtime, from the
\* decrypted text on: Throw for every exception up to there.
FindSection(hashedPassword, sectionId) ==
    With(Parsed[config.doc, hashedPassword], LAMBDA sections :
        IF ~sections.ok THEN Throw ELSE Find(sections.v, sectionId))

\* The submit handler of the per-section runtime resumes after its awaits.
SubmitSection(a) ==
    /\ a \in BagToSet(pending)
    /\ variant = "section" /\ a.kind = "submit"
    /\ With(KeyOf[a.password], LAMBDA hashedPassword :
       With(FindSection(hashedPassword, a.sectionId), LAMBDA section :
           IF ~section.ok \/ ~Truthy(section.v)
           THEN /\ lastAlert' = AlertText
                /\ UNCHANGED <<decryptedSections, placeholders, inserted, storage,
                               modalDisplay, passwordInput>>
           ELSE With(GetProp(section.v, U("content")).v, LAMBDA content :
                With(ReplacePlaceholder(Dom(placeholders, inserted),
                                        U(a.sectionId), content), LAMBDA dom :
                    /\ decryptedSections' =
                            MapSet(decryptedSections, a.sectionId, content, hashedPassword)
                    /\ placeholders' = dom.placeholders
                    /\ inserted' = dom.inserted
                    /\ storage' =
                        RememberIfChecked(storage, a.rememberChecked,
                                          config.isRememberEnabled, a.sectionId,
                                          hashedPassword, config.rememberDurationInDays, now)
                    /\ modalDisplay' = "none"
                    /\ passwordInput' = ""
                    /\ lastAlert' = ""))))
    /\ pending' = Resume(pending, a)
    /\ UNCHANGED <<codec, variant, config, currentSectionId, rememberChecked, now,
                   decryptedContent, loaded>>

\* tryRememberedPassword(sectionId) of the per-section runtime resumes after
\* its await, and the then-callback of showPasswordPrompt hides the modal
\* on true.
TryRememberedPasswordResume(a) ==
    /\ a \in BagToSet(pending)
    /\ variant = "section" /\ a.kind = "remembered"
    /\ With(FindSection(a.hashedPassword, a.sectionId), LAMBDA section :
           IF ~section.ok
           THEN /\ storage' = Forget(storage, a.sectionId)
                /\ UNCHANGED <<decryptedSections, placeholders, inserted, modalDisplay>>
           ELSE IF ~Truthy(section.v)
           THEN UNCHANGED <<storage, decryptedSections, placeholders, inserted,
                            modalDisplay>>
           ELSE With(GetProp(section.v, U("content")).v, LAMBDA content :
                With(ReplacePlaceholder(Dom(placeholders, inserted),
                                        U(a.sectionId), content), LAMBDA dom :
                    /\ decryptedSections' =
                            MapSet(decryptedSections, a.sectionId, content,
                                   a.hashedPassword)
                    /\ placeholders' = dom.placeholders
                    /\ inserted' = dom.inserted
                    /\ modalDisplay' = "none"
                    /\ UNCHANGED storage)))
    /\ pending' = Resume(pending, a)
    /\ lastAlert' = ""
    /\ UNCHANGED <<codec, variant, config, currentSectionId, passwordInput,
                   rememberChecked, now, decryptedContent, loaded>>

Next ==
    \/ DOMContentLoaded
    \/ \E cfg \in Configs : LoadPage(cfg)
    \/ Tick(MsPerDay)
    \/ \E sectionId \in SectionIds : ShowPasswordPrompt(sectionId)
    \/ \E p \in Passwords : TypePassword(p)
    \/ ToggleRemember
    \/ CloseModal
    \/ Submit
    \/ \E a \in BagToSet(pending) : DecryptSection(a)
    \/ \E a \in BagToSet(pending) : DecryptAllSections(a)
    \/ \E a \in BagToSet(pending) : HandleDecryptionOfPage(a)
    \/ \E a \in BagToSet(pending) : SubmitSection(a)
    \/ \E a \in BagToSet(pending) : TryRememberedPasswordResume(a)

Spec == Init /\ [][Next]_vars

-----------------------------------------------------------------------------
(* The crypto engine on its own: a message is encrypted with the key of    *)
(* one password and the result is decrypted with the key of a password     *)

\* The messages handed to encrypt: JSON texts, text outside ASCII, a text
\* that starts with U+FEFF, a text with U+FEFF inside, and a string that is
\* not well-formed UTF-16 (a lone surrogate).
Plaintexts ==
    { <<>>, U("a"), U("[]"), U("0123456789abcdef"), JSONStringify(EncryptedSections),
      <<233>>, <<8364>>, <<55357, 56832>>,
      <<65279>> \o U("[]"), <<91, 65279, 93>>, <<55357>> }

CodecPasswords == {"", "pw", "ng"}

CodecIVs == {DocIV(d) : d \in Docs}

InitCodec ==
    /\ codec \in [stage : {"chosen"}, msg : Plaintexts, password : CodecPasswords,
                  iv : CodecIVs, encrypted : {Throw}, password2 : {""},
                  decrypted : {Throw}]
    /\ variant = "whole"
    /\ config = [doc |-> "page1", isRememberEnabled |-> FALSE, rememberDurationInDays |-> 0]
    /\ storage = EmptyStorage
    /\ now = 0
    /\ InitPage

\* cryptoEngine.encrypt(msg, hashedPassword)
EncryptMsg ==
    /\ codec.stage = "chosen"
    /\ codec' = [codec EXCEPT
                    !.stage = "encrypted",
                    !.encrypted = Encrypt(codec.msg, HashPassword(U(codec.password), Salt),
                                          codec.iv)]
    /\ UNCHANGED rtVars

\* cryptoEngine.decrypt(encryptedMsg, hashedPassword) of what encrypt returned
DecryptMsg(password) ==
    /\ codec.stage = "encrypted"
    /\ codec.encrypted.ok
    /\ codec' = [codec EXCEPT
                    !.stage = "decrypted",
                    !.password2 = password,
                    !.decrypted = Decrypt(codec.encrypted.v, HashPassword(U(password), Salt))]
    /\ UNCHANGED rtVars

NextCodec ==
    \/ EncryptMsg
    \/ \E password \in CodecPasswords : DecryptMsg(password)

SpecCodec == InitCodec /\ [][NextCodec]_vars

\* A string every surrogate of which is paired: one that UTF-8 can carry.
WellFormed(str) ==
    \A i \in 1..Len(str) :
        /\ IsHighSurrogate(str[i]) => (i < Len(str) /\ IsLowSurrogate(str[i + 1]))
        /\ IsLowSurrogate(str[i]) => (i > 1 /\ IsHighSurrogate(str[i - 1]))

\* C1: decrypting what encrypt returned, with the same key, returns exactly
\* the message that was encrypted, for every well-formed message.
C1_RoundTrip ==
    (codec.stage = "decrypted" /\ codec.password2 = codec.password
        /\ WellFormed(codec.msg))
        => (codec.decrypted.ok /\ codec.decrypted.v = codec.msg)

-----------------------------------------------------------------------------
(* Properties of the runtimes                                              *)

\* The calls made with a key recalled from localStorage, and their scope.
Recalled(a) == a.kind \in {"remembered", "load"}
ScopeOf(a) == IF a.kind = "load" THEN WholeDocument ELSE a.sectionId

\* The scope a runtime remembers the key of a submission under.
RememberScope(a) == IF variant = "section" THEN a.sectionId ELSE WholeDocument

\* The remember checkbox as the runtime reads it for the call.
Checked(a) == IF variant = "whole" THEN rememberChecked ELSE a.rememberChecked

\* The step in which a submission is answered, and the one in which a call
\* made with a recalled key is.
SubmitResumes(a) == DecryptSection(a) \/ HandleDecryptionOfPage(a) \/ SubmitSection(a)
RecallResumes(a) == DecryptAllSections(a) \/ TryRememberedPasswordResume(a)

\* The step in which a submission of the page's password, made with the
\* remember option on a page that enables it, is answered.
Remembers(a) ==
    /\ a.kind = "submit"
    /\ a.password = DocPassword(config.doc)
    /\ Checked(a)
    /\ config.isRememberEnabled
    /\ SubmitResumes(a)

\* The step in which a submission of a wrong password is answered: at once
\* by the whole-document runtime when its cache is filled, when the
\* suspended call resumes otherwise.
WrongPasswordAnswered ==
    \/ /\ variant = "whole" /\ Truthy(decryptedContent)
       /\ passwordInput # DocPassword(config.doc)
       /\ Submit
    \/ \E a \in BagToSet(pending) :
        /\ a.kind = "submit"
        /\ a.password # DocPassword(config.doc)
        /\ SubmitResumes(a)

\* C3: a submission of a wrong password replaces no placeholder, inserts
\* nothing and leaves the modal as it is, in every runtime.
C3_WrongPasswordChangesNothing ==
    [][WrongPasswordAnswered =>
        /\ placeholders' = placeholders
        /\ inserted' = inserted
        /\ modalDisplay' = modalDisplay]_vars

\* The stored credential of the scope has no expiration or one that is
\* strictly in the future.
NotExpired(scope) ==
    LET expiration == GetItem(storage, ExpirationItem(scope))
    IN  expiration = "" \/ LessThan(now, ParseInt(expiration))

\* C4: a key is recalled and passed to decrypt only when its expiration is
\* absent or strictly in the future (now < expiresAt).
C4_ExpiredNeverDecrypted ==
    [][\A a \in BagToSet(pending' (-) pending) :
            Recalled(a) => NotExpired(ScopeOf(a))]_vars

\* The step in which a runtime recalls the credential of the scope.
Recalls(scope) ==
    IF scope = WholeDocument
    THEN variant = "whole" /\ config.isRememberEnabled /\ DOMContentLoaded
    ELSE /\ variant = "section" /\ config.isRememberEnabled
         /\ scope \notin DOMAIN decryptedSections
         /\ ShowPasswordPrompt(scope)

\* The scope has a stored key whose expiration is in the past.
InThePast(scope) ==
    /\ HasItem(storage, PassphraseItem(scope))
    /\ GreaterThan(now, ParseInt(GetItem(storage, ExpirationItem(scope))))

\* C5: a recall that finds a credential whose expiration is in the past
\* removes the key and the expiration of the scope.
C5_ExpiredEvicted ==
    [][\A scope \in Scopes :
            (InThePast(scope) /\ Recalls(scope)) =>
                /\ ~HasItem(storage', PassphraseItem(scope))
                /\ ~HasItem(storage', ExpirationItem(scope))]_vars

\* C6: after a remember with a duration of 0 days or less the scope has no
\* expiration entry, whatever localStorage held before.
C6_NoExpirationLeft ==
    [][\A a \in BagToSet(pending) :
            (config.rememberDurationInDays <= 0 /\ Remembers(a)) =>
                ~HasItem(storage', ExpirationItem(RememberScope(a)))]_vars

\* C7: after a remember with a positive duration the expiration of the
\* scope is the time of the remember plus durationDays * 86400 seconds, and
\* its key is the derived key of the submission that succeeded.
C7_ExpirationAndKey ==
    [][\A a \in BagToSet(pending) :
            (config.rememberDurationInDays > 0 /\ Remembers(a)) =>
                /\ HasItem(storage', ExpirationItem(RememberScope(a)))
                /\ ~ParseInt(storage'[ExpirationItem(RememberScope(a))]).nan
                /\ ParseInt(storage'[ExpirationItem(RememberScope(a))]).n
                        = now + config.rememberDurationInDays * 86400 * 1000
                /\ HasItem(storage', PassphraseItem(RememberScope(a)))
                /\ storage'[PassphraseItem(RememberScope(a))] = KeyOf[a.password]]_vars

\* A remember with a positive duration has acted, after time has passed:
\* the scope holds the page's key and an expiration one day from now.
C7_Remembered ==
    /\ now > 0
    /\ config.rememberDurationInDays = 1
    /\ \E scope \in Scopes :
        /\ HasItem(storage, PassphraseItem(scope))
        /\ storage[PassphraseItem(scope)] = DocKey[config.doc]
        /\ HasItem(storage, ExpirationItem(scope))
        /\ ParseInt(storage[ExpirationItem(scope)]).n = now + MsPerDay

\* C8: when the decryption made with a recalled key fails, the key and the
\* expiration of the scope are removed, nothing is inserted, and the modal
\* is left as it is for the user to type the password.
C8_FailedRecallEvicts ==
    [][\A a \in BagToSet(pending) :
            (Recalled(a) /\ a.hashedPassword # DocKey[config.doc] /\ RecallResumes(a)) =>
                /\ ~HasItem(storage', PassphraseItem(ScopeOf(a)))
                /\ ~HasItem(storage', ExpirationItem(ScopeOf(a)))
                /\ placeholders' = placeholders
                /\ inserted' = inserted
                /\ modalDisplay' = modalDisplay]_vars

\* A call made with a recalled key that is not the page's key is in flight,
\* and the scope still holds the key and an expiration.
C8_FailingRecallInFlight ==
    \E a \in BagToSet(pending) :
        /\ Recalled(a)
        /\ a.hashedPassword # DocKey[config.doc]
        /\ HasItem(storage, PassphraseItem(ScopeOf(a)))
        /\ HasItem(storage, ExpirationItem(ScopeOf(a)))

\* C9: while the call made with a recalled key that will decrypt the page
\* is in flight for a section, the modal is not displayed for that section.
C9_NoPromptDuringRecall ==
    \A a \in BagToSet(pending) :
        (Recalled(a) /\ a.hashedPassword = DocKey[config.doc]) =>
            ~(modalDisplay = "block" /\ currentSectionId = a.sectionId)

\* An item of localStorage is added or given another value by the step.
Written ==
    \E name \in DOMAIN storage' : name \notin DOMAIN storage \/ storage'[name] # storage[name]

\* C10: localStorage is written only by the step that answers a submission
\* that decrypted the page, made with the remember option checked on a page
\* whose isRememberEnabled is true.
C10_WrittenOnlyOnSuccess ==
    [][Written => \E a \in BagToSet(pending) : Remembers(a)]_vars

\* A credential has been written.
C10_CredentialStored ==
    \E scope \in Scopes : HasItem(storage, PassphraseItem(scope))

\* A string of hex digits of the length hashPassword returns.
IsDerivedKeyHex(value) ==
    /\ Len(value) = DeriveBitsLength \div HEX_BITS
    /\ \A i \in 1..Len(value) : HexVal(CharAt(value, i)) >= 0

\* The decimal digits of a time in milliseconds.
IsTimestamp(value) ==
    /\ ~ParseInt(value).nan
    /\ ParseInt(value).n >= 0
    /\ NumberToString(ParseInt(value).n) = value

\* C11: localStorage holds only derived keys, as hex strings, under the
\* passphrase names and timestamps under the expiration names; no item is a
\* password a user typed.
C11_OnlyKeysAndTimestamps ==
    \A name \in DOMAIN storage :
        /\ \E scope \in Scopes :
            \/ /\ name = PassphraseItem(scope)
               /\ IsDerivedKeyHex(storage[name])
               /\ storage[name] \in Keys
            \/ /\ name = ExpirationItem(scope)
               /\ IsTimestamp(storage[name])
        /\ storage[name] \notin Passwords

\* A password was typed and submitted and its key and an expiration are in
\* localStorage.
C11_KeyOfTypedPasswordStored ==
    \E scope \in Scopes :
        /\ HasItem(storage, PassphraseItem(scope))
        /\ storage[PassphraseItem(scope)] = KeyOf["pw"]
        /\ HasItem(storage, ExpirationItem(scope))

\* The scope an async call works for: the section in the per-section
\* runtime, the whole document in the other two.
AttemptScope(a) == IF variant = "section" THEN a.sectionId ELSE WholeDocument

\* C12: at most one call that derives a key or decrypts is in flight for a
\* scope at any time.
C12_OneAttemptPerScope ==
    \A a \in BagToSet(pending) :
        /\ CopiesIn(a, pending) = 1
        /\ \A b \in BagToSet(pending) : AttemptScope(b) = AttemptScope(a) => b = a

\* The modal is hidden and every placeholder is still in the document: the
\* user closed the prompt (every other step that hides the modal replaces a
\* placeholder).
ClosedByUser == modalDisplay = "none" /\ placeholders = SectionIds

\* C13: a submission that resolves after the user closed the prompt changes
\* nothing in the document.
C13_ClosedPromptDiscardsResult ==
    [][\A a \in BagToSet(pending) :
            (a.kind = "submit" /\ ClosedByUser /\ SubmitResumes(a)) =>
                /\ placeholders' = placeholders
                /\ inserted' = inserted]_vars

\* The step in which a call of the per-section runtime made for a section
\* resolves while the modal is open for another section.
ResolvesUnderOtherPrompt(a) ==
    /\ variant = "section"
    /\ modalDisplay = "block"
    /\ currentSectionId \in SectionIds \ {a.sectionId}
    /\ SubmitSection(a) \/ TryRememberedPasswordResume(a)

\* C14: in the per-section runtime a call for section A that resolves while
\* the modal is open for another section B leaves B's prompt, B's
\* placeholder and B's stored credential as they are.
C14_SectionsIndependent ==
    [][\A a \in BagToSet(pending) :
            ResolvesUnderOtherPrompt(a) =>
                /\ modalDisplay' = modalDisplay
                /\ currentSectionId' = currentSectionId
                /\ passwordInput' = passwordInput
                /\ (currentSectionId \in placeholders) = (currentSectionId \in placeholders')
                /\ inserted'[currentSectionId] = inserted[currentSectionId]
                /\ \A name \in {PassphraseItem(currentSectionId),
                                ExpirationItem(currentSectionId)} :
                    /\ HasItem(storage', name) = HasItem(storage, name)
                    /\ GetItem(storage', name) = GetItem(storage, name)]_vars

\* The item name ends with "_" and the section id.
SuffixedWith(name, sectionId) ==
    /\ Len(name) > Len(sectionId)
    /\ SubSeq(name, Len(name) - Len(sectionId), Len(name)) = "_" \o sectionId

\* The step in which the per-section runtime remembers, recalls or forgets
\* for the section: showPasswordPrompt(sectionId), or a call made for the
\* section that resolves.
ActsFor(sectionId) ==
    \/ ShowPasswordPrompt(sectionId)
    \/ \E a \in BagToSet(pending) :
        /\ a.sectionId = sectionId
        /\ SubmitSection(a) \/ TryRememberedPasswordResume(a)

\* C15: in the per-section runtime a step made for section A adds, changes
\* and removes only items of localStorage whose name ends with A, and a
\* recall for A uses the key stored under A's name.
C15_OwnEntriesOnly ==
    [][\A sectionId \in SectionIds :
            (variant = "section" /\ ActsFor(sectionId)) =>
                /\ \A name \in DOMAIN storage \cup DOMAIN storage' :
                    SuffixedWith(name, sectionId)
                        \/ /\ HasItem(storage', name) = HasItem(storage, name)
                           /\ GetItem(storage', name) = GetItem(storage, name)
                /\ \A a \in BagToSet(pending' (-) pending) :
                    /\ a.sectionId = sectionId
                    /\ a.hashedPassword
                            = GetItem(storage, "staticrypt_passphrase_" \o sectionId)]_vars

\* Both sections were remembered, at different times: the second remember
\* left the entries of the first as they were.
C15_TwoSectionsRemembered ==
    /\ variant = "section"
    /\ \A sectionId \in SectionIds :
        /\ HasItem(storage, "staticrypt_passphrase_" \o sectionId)
        /\ HasItem(storage, "staticrypt_expiration_" \o sectionId)
    /\ storage["staticrypt_expiration_staticrypt-section-0"]
            # storage["staticrypt_expiration_staticrypt-section-1"]

\* The key a call decrypts with.
AttemptKey(a) == IF Recalled(a) THEN a.hashedPassword ELSE KeyOf[a.password]

\* The step in which a call of a whole-document runtime (the whole-document
\* one or the init one) made with the page's key resolves.
UnlocksDocument(a) ==
    /\ variant \in {"whole", "init"}
    /\ AttemptKey(a) = DocKey[config.doc]
    /\ DecryptSection(a) \/ DecryptAllSections(a) \/ HandleDecryptionOfPage(a)

\* C16: in the whole-document runtimes a successful unlock, recalled or
\* prompted, replaces all the placeholders: none remains after it.
C16_UnlockReplacesAll ==
    [][\A a \in BagToSet(pending) : UnlocksDocument(a) => placeholders' = {}]_vars

\* The scope the section belongs to has been injected: the section itself in
\* the per-section runtime, all the sections in the other two.
Unlocked(sectionId) ==
    IF variant = "section" THEN sectionId \notin placeholders ELSE placeholders = {}

\* C17: showPasswordPrompt for a section whose scope is unlocked changes
\* nothing: the modal is not shown, no call is started, and the document
\* and localStorage stay as they are.
C17_UnlockedIsTerminal ==
    [][\A sectionId \in SectionIds :
            (Unlocked(sectionId) /\ ShowPasswordPrompt(sectionId)) =>
                /\ modalDisplay' = modalDisplay
                /\ pending' = pending
                /\ placeholders' = placeholders
                /\ inserted' = inserted
                /\ storage' = storage]_vars

\* The step in which a runtime injects the section: a call made with the
\* page's key resolves (for the section, or for all of them), the
\* whole-document runtime answers a submission from its cache, or the
\* per-section runtime is asked for a section it has decrypted.
Injects(sectionId) ==
    \/ /\ variant = "section" /\ sectionId \in DOMAIN decryptedSections
       /\ ShowPasswordPrompt(sectionId)
    \/ /\ variant = "whole" /\ Truthy(decryptedContent)
       /\ currentSectionId = sectionId
       /\ Submit
    \/ \E a \in BagToSet(pending) :
        /\ AttemptKey(a) = DocKey[config.doc]
        /\ a.sectionId = sectionId \/ a.kind = "load" \/ variant = "init"
        /\ SubmitResumes(a) \/ RecallResumes(a)

\* C18: injecting a section whose placeholder is absent changes nothing in
\* the document and raises no error, and a section injected twice is in the
\* document once.
C18_InjectionIdempotent ==
    [][\A sectionId \in SectionIds :
            Injects(sectionId) =>
                /\ sectionId \notin placeholders'
                /\ Len(inserted'[sectionId]) = 1
                /\ sectionId \notin placeholders =>
                    /\ inserted'[sectionId] = inserted[sectionId]
                    /\ lastAlert' = ""]_vars

\* A section has been injected and a second injection of it is in flight.
C18_SecondInjectionInFlight ==
    \E a \in BagToSet(pending) :
        /\ variant = "section"
        /\ a.kind = "submit"
        /\ KeyOf[a.password] = DocKey[config.doc]
        /\ a.sectionId \notin placeholders
        /\ Len(inserted[a.sectionId]) = 1

\* The step in which a submission is answered with the alert.
FailedAttempt == \E a \in BagToSet(pending) : SubmitResumes(a) /\ lastAlert' = AlertText

\* C19: after a submission that failed and after the modal was closed the
\* password field is empty, in every runtime.
C19_FieldCleared ==
    [][(FailedAttempt \/ CloseModal) => passwordInput' = ""]_vars

-----------------------------------------------------------------------------
(* Requests for a section the page does not have                           *)

\* An id that is in no page: showPasswordPrompt is a public function and
\* takes any string.
ForeignSectionId == "staticrypt-section-9"

NextForeign ==
    \/ Next
    \/ ShowPasswordPrompt(ForeignSectionId)

SpecForeign == Init /\ [][NextForeign]_vars

\* The submission cannot unlock what was asked for: the key does not decrypt
\* the page, the text is no JSON array, or (in the runtimes that unlock the
\* section asked for) the array has no section with the id.
Fails(a) ==
    IF variant = "init" THEN ~Parsed[config.doc, KeyOf[a.password]].ok
    ELSE With(FindSection(KeyOf[a.password], a.sectionId), LAMBDA section :
            ~section.ok \/ ~Truthy(section.v))

\* C20: every submission that fails, whatever the cause, is answered in the
\* same way: the one alert, and the document, the modal and localStorage
\* left as they were.
C20_FailuresAlike ==
    [][\A a \in BagToSet(pending) :
            (a.kind = "submit" /\ Fails(a) /\ SubmitResumes(a)) =>
                /\ lastAlert' = AlertText
                /\ placeholders' = placeholders
                /\ inserted' = inserted
                /\ modalDisplay' = modalDisplay
                /\ storage' = storage]_vars

-----------------------------------------------------------------------------
(* One visit of page1 with a stale credential in localStorage              *)

\* page1 as built with each setting of --remember.
LiveConfigs == {cfg \in Configs : cfg.doc = "page1"}

\* What a remember made on page2 left in localStorage under the names the
\* runtime of page1 reads: the key of page2 and an expiration a day ahead.
StaleCredential(scope) ==
    SetItem(SetItem(EmptyStorage, PassphraseItem(scope), DocKey["page2"]),
            ExpirationItem(scope), NumberToString(MsPerDay))

InitLive ==
    /\ codec = NoExperiment
    /\ variant \in Variants
    /\ config \in LiveConfigs
    /\ storage = StaleCredential(IF variant = "section" THEN "staticrypt-section-0"
                                 ELSE WholeDocument)
    /\ now = 0
    /\ InitPage

NextLive ==
    \/ DOMContentLoaded
    \/ \E sectionId \in SectionIds : ShowPasswordPrompt(sectionId)
    \/ \E p \in Passwords : TypePassword(p)
    \/ ToggleRemember
    \/ CloseModal
    \/ Submit
    \/ \E a \in BagToSet(pending) : DecryptSection(a)
    \/ \E a \in BagToSet(pending) : DecryptAllSections(a)
    \/ \E a \in BagToSet(pending) : HandleDecryptionOfPage(a)
    \/ \E a \in BagToSet(pending) : SubmitSection(a)
    \/ \E a \in BagToSet(pending) : TryRememberedPasswordResume(a)

\* The visits of one page: the steps of a visit, and the page loaded again.
NextVisits ==
    \/ NextLive
    \/ LoadPage(config)

\* The submissions of page1's password.
CorrectSubmissions ==
    {Attempt("submit", sectionId, DocPassword("page1"), "", checked) :
        sectionId \in SectionIds, checked \in BOOLEAN}

\* The call suspended at an await leaves the calls in flight: its promise
\* settled and the call resumed.
Settles(a) == a \in BagToSet(pending) /\ pending' = Resume(pending, a)

\* Every promise of crypto.subtle settles: a submission that is suspended at
\* an await resumes.
SpecLive ==
    /\ InitLive
    /\ [][NextLive]_vars
    /\ \A a \in CorrectSubmissions : WF_pending(Settles(a))

-----------------------------------------------------------------------------
(* The command line tool: src/cli/index.js                                 *)
(* File contents are strings; the texts a page shows are written in ASCII, *)
(* and the style sheet and the inner markup of the modal, which no step    *)
(* looks into, are cut short.                                              *)

StartMarker == "<!--staticrypt-start-->"
EndMarker == "<!--staticrypt-end-->"

\* The last position at or after from where pat occurs; 0 when there is none.
IndexOfLast(str, pat, from) ==
    With({i \in from..(Len(str) - Len(pat) + 1) : SubSeq(str, i, i + Len(pat) - 1) = pat},
         LAMBDA at : IF at = {} THEN 0 ELSE CHOOSE i \in at : \A j \in at : i >= j)

\* str.indexOf(pat, from): the first position at or after from where pat
\* occurs, counted from 1; 0 when there is none.
IndexOf(str, pat, from) ==
    With({i \in from..(Len(str) - Len(pat) + 1) : SubSeq(str, i, i + Len(pat) - 1) = pat},
         LAMBDA at : IF at = {} THEN 0 ELSE CHOOSE i \in at : \A j \in at : i <= j)

\* String.prototype.trim
RECURSIVE TrimEnd(_)
TrimEnd(str) ==
    IF Len(str) > 0 /\ IsWhiteSpace(CharAt(str, Len(str)))
    THEN TrimEnd(SubSeq(str, 1, Len(str) - 1))
    ELSE str
Trim(str) == TrimEnd(SubSeq(str, SkipWhiteSpace(str, 1), Len(str)))

\* The placeholder the replacer function returns for a marked region.
Placeholder(id) ==
    "<div data-staticrypt-id=\"" \o id \o "\" class=\"staticrypt-placeholder\">\n"
    \o " <div class=\"staticrypt-password-prompt\">\n"
    \o "  <p>protected</p>\n"
    \o "  <button onclick=\"staticrypt.showPasswordPrompt('" \o id \o "')\">show</button>\n"
    \o " </div>\n"
    \o "</div>"

\* `staticrypt-section-${sectionId++}`
SectionIdFromOne(n) == "staticrypt-section-" \o NumberToString(n + 1)
SectionIdOf(n) == "staticrypt-section-" \o NumberToString(n)

\* { id, content: content.trim() }
SectionUntrimmed(id, content) == [id |-> id, content |-> content]
Section(id, content) == [id |-> id, content |-> Trim(content)]

\* htmlContent.replace(/<!--staticrypt-start-->([\s\S]*?)<!--staticrypt-end-->/g,
\* replacer) from position from on, with the sections pushed so far: the
\* lazy group ends at the first end marker after the start marker.
RECURSIVE ReplaceMarked(_, _, _)
ReplaceMarked(html, from, sections) ==
    With(IndexOf(html, StartMarker, from), LAMBDA start :
    With(IF start = 0 THEN 0 ELSE IndexOf(html, EndMarker, start + Len(StartMarker)),
         LAMBDA end :
        IF end = 0
        THEN [processedHtml |-> SubSeq(html, from, Len(html)), sections |-> sections]
        ELSE With(SectionIdOf(Len(sections)), LAMBDA id :
             With(ReplaceMarked(html, end + Len(EndMarker),
                    Append(sections,
                           Section(id, SubSeq(html, start + Len(StartMarker), end - 1)))),
                  LAMBDA rest :
                 [processedHtml |-> SubSeq(html, from, start - 1) \o Placeholder(id)
                                        \o rest.processedHtml,
                  sections |-> rest.sections]))))

\* The array of { id, content } objects as a JSON value.
SectionsArray(sections) ==
    JArr([k \in 1..Len(sections) |->
            JObj(<< <<U("id"), JStr(U(sections[k].id))>>,
                    <<U("content"), JStr(U(sections[k].content))>> >>)])

\* processHtmlContent(htmlContent); sections is the array before it is
\* stringified.
ProcessHtmlContent(htmlContent) ==
    With(ReplaceMarked(htmlContent, 1, <<>>), LAMBDA r :
        [encryptedContent |-> JSONStringify(SectionsArray(r.sections)),
         processedHtml |-> r.processedHtml,
         sections |-> r.sections])

\* str.replace(pat, replacement) with a string pattern: the first occurrence
\* only.  (No replacement text of the tool has a $.)
ReplaceFirst(str, pat, replacement) ==
    With(IndexOf(str, pat, 1), LAMBDA i :
        IF i = 0 THEN str
        ELSE SubSeq(str, 1, i - 1) \o replacement \o SubSeq(str, i + Len(pat), Len(str)))

\* The text that replaces </head>: the configuration, the script and the
\* style sheet.
ConfigBlock(encryptedMsg, salt, isRememberEnabled, rememberDurationInDays) ==
    "\n<script>\n window.staticryptConfig = {\n"
    \o "  staticryptEncryptedMsgUniqueVariableName: \"" \o encryptedMsg \o "\",\n"
    \o "  isRememberEnabled: " \o (IF isRememberEnabled THEN "true" ELSE "false") \o ",\n"
    \o "  rememberDurationInDays: " \o NumberToString(rememberDurationInDays) \o ",\n"
    \o "  staticryptSaltUniqueVariableName: \"" \o salt \o "\"\n"
    \o " };\n</script>\n<script src=\"staticrypt.js\"></script>\n"
    \o "<style> .staticrypt-placeholder { } </style>\n</head>"

ModalHtml == "\n<div id=\"staticrypt-modal\" class=\"staticrypt-modal\"> </div>\n"

\* if (encryptedContent === '[]')
AlwaysMarked(encryptedContent) == FALSE
NothingMarked(encryptedContent) == encryptedContent = U("[]")

\* encodeAndGenerateFile: the text it writes to the output file.  remember
\* is namedArgs.remember.
EncodeAndGenerateFile(contents, hashedPassword, salt, iv, remember) ==
    With(ProcessHtmlContent(contents), LAMBDA p :
        IF NothingMarked(p.encryptedContent) THEN contents
        ELSE With(EncodeWithHashedPassword(p.encryptedContent, hashedPassword, iv).v,
                  LAMBDA encryptedMsg :
             With(ParseInt(remember), LAMBDA days :
             With(ReplaceFirst(p.processedHtml, "</head>",
                        ConfigBlock(encryptedMsg, salt, remember # "false",
                                    IF days.nan THEN 0 ELSE days.n)),
                  LAMBDA injectedHtml :
                 ReplaceFirst(injectedHtml, "</body>", ModalHtml \o "</body>")))))

\* pat occurs in str at position i.
OccursAt(str, pat, i) ==
    /\ i >= 1
    /\ i + Len(pat) - 1 <= Len(str)
    /\ SubSeq(str, i, i + Len(pat) - 1) = pat

\* An element of a page that carries data-staticrypt-id and that the tool
\* did not write.
StrayPlaceholder == "<div data-staticrypt-id=\"staticrypt-section-0\"></div>"

\* The elements of html that carry data-staticrypt-id: the positions of the
\* attribute, and the id written at such a position.
IdAttribute == "data-staticrypt-id=\""
PlaceholdersIn(html) == {i \in 1..Len(html) : OccursAt(html, IdAttribute, i)}
PlaceholderIdAt(html, i) ==
    With(i + Len(IdAttribute), LAMBDA from :
        SubSeq(html, from, IndexOf(html, "\"", from) - 1))

\* document.querySelector(`[data-staticrypt-id="${id}"]`) in a document
\* given by the code units of its markup: the first element with the
\* attribute, as the positions of its first and last unit, or Throw for
\* null.  The elements are those the tool writes and the stray one.
QuerySelectorInMarkup(doc, id) ==
    With({i \in 1..Len(doc) : OccursAt(doc, U(IdAttribute) \o id \o U("\""), i)},
         LAMBDA found :
        IF found = {} THEN Throw
        ELSE With((CHOOSE i \in found : \A j \in found : i <= j) - Len("<div "),
                  LAMBDA start :
                Ok([start |-> start,
                    end |-> IF \E n \in 0..2 : OccursAt(doc, U(Placeholder(SectionIdOf(n))), start)
                            THEN start + Len(Placeholder(SectionIdOf(0))) - 1
                            ELSE start + Len(StrayPlaceholder) - 1])))

\* The body of the loop of decryptAndReplaceHtml for one section: the nodes
\* of content are inserted before the placeholder and the placeholder is
\* removed.
InjectSection(doc, id, content) ==
    With(QuerySelectorInMarkup(doc, id), LAMBDA placeholder :
        IF ~placeholder.ok THEN doc
        ELSE SubSeq(doc, 1, placeholder.v.start - 1) \o content
             \o SubSeq(doc, placeholder.v.end + 1, Len(doc)))

\* for (const section of encryptedSections) { ... } from the k-th on.
RECURSIVE InjectSections(_, _, _)
InjectSections(doc, encryptedSections, k) ==
    IF k > Len(encryptedSections) THEN doc
    ELSE InjectSections(InjectSection(doc, GetProp(encryptedSections[k], U("id")).v.v,
                                      GetProp(encryptedSections[k], U("content")).v.v),
                        encryptedSections, k + 1)

\* str.match(/"<name>":\s*"([^"]+)"/) tried from position from on: the
\* group of the first match, Throw for null.  key is "<name>": with its
\* quotes and colon.
RECURSIVE MatchQuoted(_, _, _)
MatchQuoted(str, key, from) ==
    With(IndexOf(str, key, from), LAMBDA i :
        IF i = 0 THEN Throw
        ELSE With(SkipWhiteSpace(str, i + Len(key)), LAMBDA open :
             With(IF open <= Len(str) /\ CharAt(str, open) = "\""
                  THEN IndexOf(str, "\"", open + 1) ELSE 0, LAMBDA close :
                 IF close > open + 1 THEN Ok(SubSeq(str, open + 1, close - 1))
                 ELSE MatchQuoted(str, key, i + 1))))

\* decode(encoded, hashedPassword, salt) of codec.js.
Decode(encoded, hashedPassword, salt) ==
    With(Decrypt(encoded, hashedPassword), LAMBDA decrypted :
        [success |-> decrypted.ok,
         decoded |-> IF decrypted.ok THEN decrypted.v ELSE <<>>])

\* decodeAndGenerateFile: what it logs and what it writes (Throw for no
\* file written).
DecodeAndGenerateFile(encryptedFileContent, hashedPassword) ==
    With(MatchQuoted(encryptedFileContent,
                     "\"staticryptEncryptedMsgUniqueVariableName\":", 1),
         LAMBDA cipherTextMatch :
    With(MatchQuoted(encryptedFileContent, "\"staticryptSaltUniqueVariableName\":", 1),
         LAMBDA saltMatch :
        IF ~cipherTextMatch.ok \/ ~saltMatch.ok
        THEN [log |-> "ERROR: could not extract cipher text or salt", written |-> Throw]
        ELSE With(Decode(cipherTextMatch.v, hashedPassword, saltMatch.v), LAMBDA r :
                IF ~r.success
                THEN [log |-> "ERROR: could not decrypt", written |-> Throw]
                ELSE [log |-> "", written |-> Ok(r.decoded)])))

MaxPieces == 5

\* The input files: up to MaxPieces pieces of markers, text and tags.
HtmlPieces ==
    {StartMarker, EndMarker, " ", "a", "</head>", "</body>", StrayPlaceholder}
RECURSIVE HtmlInputs(_)
HtmlInputs(n) ==
    IF n = 0 THEN {""}
    ELSE With(HtmlInputs(n - 1), LAMBDA shorter :
            shorter \cup {piece \o html : piece \in HtmlPieces, html \in shorter})

\* The salt and the values of --remember the tool is run with.
SaltArg == "s1"
RememberArgs == {"false", "1"}

InitCli ==
    /\ codec \in [stage : {"chosen"}, contents : HtmlInputs(MaxPieces),
                  remember : RememberArgs]
    /\ variant = "init"
    /\ config = [doc |-> "page1", isRememberEnabled |-> FALSE, rememberDurationInDays |-> 0]
    /\ storage = EmptyStorage
    /\ now = 0
    /\ InitPage

\* processHtmlContent(contents)
ProcessHtml ==
    /\ codec.stage = "chosen"
    /\ codec' = [stage |-> "processed", contents |-> codec.contents,
                 remember |-> codec.remember,
                 processed |-> ProcessHtmlContent(codec.contents)]
    /\ UNCHANGED rtVars

\* encodeAndGenerateFile(path, ...) with the password of page1
EncodeFile ==
    /\ codec.stage = "chosen"
    /\ codec' = [stage |-> "encoded", contents |-> codec.contents,
                 remember |-> codec.remember,
                 written |-> EncodeAndGenerateFile(codec.contents, DocKey["page1"], SaltArg,
                                                   DocIV("page1"), codec.remember)]
    /\ UNCHANGED rtVars

\* decodeAndGenerateFile(path, ...) of the file the tool wrote, with the
\* key of the password given
DecodeFile(password) ==
    /\ codec.stage = "encoded"
    /\ codec' = [stage |-> "decoded", contents |-> codec.contents,
                 remember |-> codec.remember, written |-> codec.written,
                 password |-> password,
                 decoded |-> DecodeAndGenerateFile(codec.written, KeyOf[password])]
    /\ UNCHANGED rtVars

\* The page the tool built is opened and every section is injected: JSON.parse
\* of the stringified array, then the loop of decryptAndReplaceHtml.
InjectAll ==
    /\ codec.stage = "processed"
    /\ With(JSONParse(codec.processed.encryptedContent), LAMBDA encryptedSections :
          codec' = [stage |-> "injected", contents |-> codec.contents,
                    remember |-> codec.remember, processed |-> codec.processed,
                    parsed |-> encryptedSections,
                    document |-> InjectSections(U(codec.processed.processedHtml),
                                                encryptedSections.v.v, 1)])
    /\ UNCHANGED rtVars

NextCli ==
    \/ ProcessHtml
    \/ InjectAll
    \/ EncodeFile
    \/ \E password \in Passwords : DecodeFile(password)

SpecCli == InitCli /\ [][NextCli]_vars

\* ---- C22 ----
\* The marked regions of html from position from on, in encounter order:
\* a region opens at the first start marker and closes at the first end
\* marker after it; start and end are its first and last position, inner is
\* the text between the markers.
RECURSIVE MarkedRegions(_, _)
MarkedRegions(html, from) ==
    With({i \in from..Len(html) : OccursAt(html, StartMarker, i)}, LAMBDA opens :
        IF opens = {} THEN <<>>
        ELSE With(CHOOSE i \in opens : \A j \in opens : i <= j, LAMBDA open :
             With({i \in (open + Len(StartMarker))..Len(html) :
                        OccursAt(html, EndMarker, i)}, LAMBDA closes :
                IF closes = {} THEN <<>>
                ELSE With(CHOOSE i \in closes : \A j \in closes : i <= j, LAMBDA close :
                        <<[start |-> open,
                           inner |-> SubSeq(html, open + Len(StartMarker), close - 1),
                           end |-> close + Len(EndMarker) - 1]>>
                        \o MarkedRegions(html, close + Len(EndMarker))))))

\* str without its leading and trailing white space.
Stripped(str) ==
    With({i \in 1..Len(str) : ~IsWhiteSpace(CharAt(str, i))}, LAMBDA inked :
        IF inked = {} THEN ""
        ELSE SubSeq(str, CHOOSE i \in inked : \A j \in inked : i <= j,
                         CHOOSE i \in inked : \A j \in inked : i >= j))

\* The ids in encounter order.
SequentialIds == <<"staticrypt-section-0", "staticrypt-section-1", "staticrypt-section-2">>

\* html with its regions, the k-th of them onwards, replaced by the
\* placeholders of the sequential ids; from is the position after region k-1.
RECURSIVE WithPlaceholders(_, _, _, _)
WithPlaceholders(html, regions, k, from) ==
    IF k > Len(regions) THEN SubSeq(html, from, Len(html))
    ELSE SubSeq(html, from, regions[k].start - 1) \o Placeholder(SequentialIds[k])
         \o WithPlaceholders(html, regions, k + 1, regions[k].end + 1)

\* C22: processHtmlContent gives the marked regions the ids
\* staticrypt-section-0, staticrypt-section-1, ... in encounter order, keeps
\* each region's content trimmed, puts one placeholder with the region's id
\* in the place of each region, and the k-th record of the stringified array
\* is the k-th region.
C22_SectionsInEncounterOrder ==
    codec.stage = "processed" =>
        With(MarkedRegions(codec.contents, 1), LAMBDA regions :
            /\ codec.processed.sections =
                   [k \in 1..Len(regions) |->
                        [id |-> SequentialIds[k], content |-> Stripped(regions[k].inner)]]
            /\ codec.processed.processedHtml = WithPlaceholders(codec.contents, regions, 1, 1)
            /\ JSONParse(codec.processed.encryptedContent) =
                   Ok(JArr([k \in 1..Len(regions) |->
                        JObj(<< <<U("id"), JStr(U(SequentialIds[k]))>>,
                                <<U("content"),
                                  JStr(U(Stripped(regions[k].inner)))>> >>)])))

\* Two regions were found, the first with white space around its content.
C22_TwoRegionsOneTrimmed ==
    /\ codec.stage = "processed"
    /\ Len(codec.processed.sections) = 2
    /\ codec.contents = StartMarker \o " " \o EndMarker \o StartMarker \o EndMarker

\* ---- C23 ----
\* C23: after processHtmlContent the section ids are distinct, the processed
\* HTML has exactly one placeholder element for each section id, and no
\* placeholder element with an id that no section has.
C23_OnePlaceholderPerSection ==
    codec.stage = "processed" =>
        With(codec.processed, LAMBDA p :
            /\ \A j, k \in 1..Len(p.sections) :
                   p.sections[j].id = p.sections[k].id => j = k
            /\ \A k \in 1..Len(p.sections) :
                   Cardinality({i \in PlaceholdersIn(p.processedHtml) :
                        PlaceholderIdAt(p.processedHtml, i) = p.sections[k].id}) = 1
            /\ \A i \in PlaceholdersIn(p.processedHtml) :
                   \E k \in 1..Len(p.sections) :
                       PlaceholderIdAt(p.processedHtml, i) = p.sections[k].id)

\* ---- C24 ----
\* C24: for an input with no marker pair processHtmlContent returns the
\* HTML unchanged and no section, and encodeAndGenerateFile writes the
\* contents of the file as they are: nothing is encrypted or injected.
C24_UnmarkedFileCopied ==
    MarkedRegions(codec.contents, 1) = <<>> =>
        /\ codec.stage = "processed" =>
               /\ codec.processed.processedHtml = codec.contents
               /\ codec.processed.sections = <<>>
               /\ codec.processed.encryptedContent = U("[]")
        /\ codec.stage = "encoded" => codec.written = codec.contents

\* A file with a start marker that is never closed, a head and a body was
\* written.
C24_UnclosedMarkerCopied ==
    /\ codec.stage = "encoded"
    /\ codec.contents = StartMarker \o "a" \o "</head>" \o "</body>"
    /\ codec.written = codec.contents

\* ---- C25 ----
\* The positions of the attribute data-staticrypt-id in a document given by
\* its code units.
PlaceholdersLeft(doc) == {i \in 1..Len(doc) : OccursAt(doc, U(IdAttribute), i)}

\* html with its regions, the k-th of them onwards, replaced by their
\* trimmed content; from is the position after region k-1.
RECURSIVE WithContents(_, _, _, _)
WithContents(html, regions, k, from) ==
    IF k > Len(regions) THEN SubSeq(html, from, Len(html))
    ELSE SubSeq(html, from, regions[k].start - 1) \o Stripped(regions[k].inner)
         \o WithContents(html, regions, k + 1, regions[k].end + 1)

\* C25: parsing the stringified array gives the extracted sections back,
\* and injecting every section into the processed HTML gives the input with
\* each marked region replaced by its trimmed content and no placeholder
\* left.
C25_InjectionRestoresInput ==
    codec.stage = "injected" /\ codec.processed.sections # <<>> =>
        /\ codec.parsed = Ok(SectionsArray(codec.processed.sections))
        /\ codec.document =
               U(WithContents(codec.contents, MarkedRegions(codec.contents, 1), 1, 1))
        /\ PlaceholdersLeft(codec.document) = {}

\* The same for the inputs with no element that carries data-staticrypt-id.
RoundTripWithoutStray ==
    codec.stage = "injected" /\ PlaceholdersIn(codec.contents) = {} =>
        /\ codec.parsed = Ok(SectionsArray(codec.processed.sections))
        /\ codec.document =
               U(WithContents(codec.contents, MarkedRegions(codec.contents, 1), 1, 1))
        /\ PlaceholdersLeft(codec.document) = {}

\* ---- C26 ----
\* The positions in html where a configuration block begins.
ConfigBlocksIn(html) == {i \in 1..Len(html) : OccursAt(html, "window.staticryptConfig = {", i)}

\* C26: the file written for an input with at least one marked region has
\* the placeholders and exactly one configuration block, with the envelope,
\* the salt, the remember flag and the duration, whether or not the input has
\* a closing head tag.
C26_OneConfigBlock ==
    codec.stage = "encoded" /\ MarkedRegions(codec.contents, 1) # <<>> =>
        /\ \A k \in 1..Len(MarkedRegions(codec.contents, 1)) :
               IndexOf(codec.written, Placeholder(SequentialIds[k]), 1) > 0
        /\ Cardinality(ConfigBlocksIn(codec.written)) = 1
        /\ \A i \in ConfigBlocksIn(codec.written) :
               /\ IndexOf(codec.written, "staticryptEncryptedMsgUniqueVariableName: \"", i) > 0
               /\ IndexOf(codec.written, "staticryptSaltUniqueVariableName: \"" \o SaltArg, i) > 0
               /\ IndexOf(codec.written, "isRememberEnabled: ", i) > 0
               /\ IndexOf(codec.written, "rememberDurationInDays: ", i) > 0

\* The same for the inputs that have a closing head tag outside the regions.
ConfigBlockUnderHead ==
    /\ codec.stage = "encoded"
    /\ MarkedRegions(codec.contents, 1) # <<>>
    /\ IndexOf(ProcessHtmlContent(codec.contents).processedHtml, "</head>", 1) > 0
    => Cardinality(ConfigBlocksIn(codec.written)) = 1

\* ---- C27 ----
\* C27: decodeAndGenerateFile, given a file encodeAndGenerateFile wrote with
\* a configuration block and the same derived key, reports no extraction
\* error and writes the section array that was encrypted.
C27_DecodeInvertsEncode ==
    /\ codec.stage = "decoded"
    /\ ConfigBlocksIn(codec.written) # {}
    /\ codec.password = DocPassword("page1")
    => /\ codec.decoded.log = ""
       /\ codec.decoded.written = Ok(ProcessHtmlContent(codec.contents).encryptedContent)

\* What decodeAndGenerateFile does with every file of the tool: it reports
\* that it could not extract the cipher text or the salt and writes nothing.
NeverExtracted ==
    codec.stage = "decoded" =>
        /\ codec.decoded.log = "ERROR: could not extract cipher text or salt"
        /\ codec.decoded.written = Throw

\* ---- C28 ----
\* The link share mode prints for the page at url: the derived key in the
\* fragment, and remember_me with --share-remember.
ShareLink(url, hashedPassword, shareRemember) ==
    url \o "#staticrypt_pwd=" \o hashedPassword
        \o (IF shareRemember THEN "&remember_me" ELSE "")

\* page1 is opened by a share link of its password: the link is the
\* location of the window for the whole visit.
InitShare ==
    /\ codec \in {[stage |-> "none",
                   location |-> ShareLink("https://example.org/page1.html",
                                          DocKey["page1"], shareRemember)] :
                     shareRemember \in BOOLEAN}
    /\ variant \in Variants
    /\ config \in LiveConfigs
    /\ storage = EmptyStorage
    /\ now = 0
    /\ InitPage

SpecShare == InitShare /\ [][NextVisits]_vars

\* C28: once a page opened with the share link has run its start-up code,
\* the derived key of the link is in the credential store (under the name
\* of some scope), so that the sections unlock with no password typed.
C28_ShareLinkRecognized ==
    loaded =>
        \E scope \in Scopes :
            codec.location = ShareLink("https://example.org/page1.html",
                                       GetItem(storage, PassphraseItem(scope)),
                                       IndexOf(codec.location, "&remember_me", 1) > 0)

-----------------------------------------------------------------------------
(* Decrypt mode over a batch of files                                      *)

\* A file with the configuration as JSON, the names in double quotes.
QuotedConfigFile(encryptedMsg, salt) ==
    "<script>var staticryptConfig = {\"staticryptEncryptedMsgUniqueVariableName\": \""
    \o encryptedMsg \o "\", \"staticryptSaltUniqueVariableName\":\"" \o salt \o "\"};</script>"

\* The files of a batch: one the key of the run decrypts, one encrypted
\* under another password, one that encodeAndGenerateFile wrote, and a page
\* that was never encrypted.
BatchKey == DocKey["page2"]
BatchFile ==
    [decryptable |-> QuotedConfigFile(EncryptedContent["page2"], SaltArg),
     undecryptable |-> QuotedConfigFile(EncryptedContent["page1"], SaltArg),
     encoded |-> EncodeAndGenerateFile("</head>" \o StartMarker \o "a" \o EndMarker,
                                       BatchKey, SaltArg, DocIV("page2"), "false"),
     plain |-> "<p>a</p>"]

MaxFiles == 3

\* exitWithError(message): the message is logged and the process ends, with
\* whatever was still to do.
ExitWithError(batch, i, message) ==
    [batch EXCEPT !.log = Append(@, [file |-> i, message |-> message]),
                  !.started = Len(batch.files), !.suspended = {}]

\* return console.log(message), for file i.
ConsoleLog(batch, i, message) ==
    [batch EXCEPT !.log = Append(@, [file |-> i, message |-> message])]

InitBatch ==
    /\ codec \in [stage : {"batch"},
                  files : UNION {[1..n -> DOMAIN BatchFile] : n \in 1..MaxFiles},
                  started : {0}, suspended : {{}}, log : {<<>>},
                  written : {[i \in {} |-> ""]}]
    /\ variant = "init"
    /\ config = [doc |-> "page1", isRememberEnabled |-> FALSE, rememberDurationInDays |-> 0]
    /\ storage = EmptyStorage
    /\ now = 0
    /\ InitPage

\* positionalArguments.forEach: decodeAndGenerateFile is called for the
\* next file and runs up to its await, or to the return after the
\* extraction error.
StartDecode ==
    /\ codec.stage = "batch"
    /\ codec.started < Len(codec.files)
    /\ With(codec.started + 1, LAMBDA i :
       With(DecodeAndGenerateFile(BatchFile[codec.files[i]], BatchKey), LAMBDA r :
          codec' = IF r.log = "ERROR: could not extract cipher text or salt"
                   THEN ConsoleLog([codec EXCEPT !.started = i], i, r.log)
                   ELSE [codec EXCEPT !.started = i, !.suspended = @ \cup {i}]))
    /\ UNCHANGED rtVars

\* decodeAndGenerateFile for file i resumes after await decode(...), once
\* the loop over the files has returned, in any order.
ResumeDecode(i) ==
    /\ codec.stage = "batch"
    /\ codec.started = Len(codec.files)
    /\ i \in codec.suspended
    /\ With(DecodeAndGenerateFile(BatchFile[codec.files[i]], BatchKey), LAMBDA r :
          codec' = IF ~r.written.ok
                   THEN ConsoleLog([codec EXCEPT !.suspended = @ \ {i}], i, r.log)
                   ELSE [codec EXCEPT !.suspended = @ \ {i},
                                      !.written = (i :> r.written.v) @@ @])
    /\ UNCHANGED rtVars

NextBatch ==
    \/ StartDecode
    \/ \E i \in 1..MaxFiles : ResumeDecode(i)

SpecBatch == InitBatch /\ [][NextBatch]_vars

\* ---- C29 ----
\* C29: in a decrypt-mode batch a file that cannot be extracted or decrypted
\* gets one diagnostic and no output, and every other file is processed and
\* written all the same: what is written for a file depends on that file
\* alone.
C29_FailuresIsolated ==
    /\ \A i \in DOMAIN codec.written :
           /\ codec.files[i] = "decryptable"
           /\ codec.written[i] = Decrypted["page2", BatchKey].v
    /\ \A k \in 1..Len(codec.log) : codec.files[codec.log[k].file] # "decryptable"
    /\ codec.started = Len(codec.files) /\ codec.suspended = {} =>
           \A i \in 1..Len(codec.files) :
               IF codec.files[i] = "decryptable"
               THEN i \in DOMAIN codec.written
               ELSE /\ i \notin DOMAIN codec.written
                    /\ Cardinality({k \in 1..Len(codec.log) : codec.log[k].file = i}) = 1

\* A batch of an undecryptable, a decryptable and an unextractable file has
\* been worked off: two diagnostics and one file written.
C29_BatchWithTwoFailuresDone ==
    /\ codec.files = <<"undecryptable", "decryptable", "encoded">>
    /\ codec.started = 3 /\ codec.suspended = {}
    /\ DOMAIN codec.written = {2}
    /\ Len(codec.log) = 2

\* ---- C30 ----
\* page3 is visited: its envelope decrypts, with the password, to the array
\* whose first element has no content.
InitMalformed ==
    /\ codec = NoExperiment
    /\ variant \in Variants
    /\ config \in {[doc |-> "page3", isRememberEnabled |-> TRUE, rememberDurationInDays |-> 1],
                   [doc |-> "page3", isRememberEnabled |-> FALSE, rememberDurationInDays |-> 0]}
    /\ storage = EmptyStorage
    /\ now = 0
    /\ InitPage

SpecMalformed == InitMalformed /\ [][NextVisits]_vars

\* C30: the runtime injects nothing from, and does not cache, a decrypted
\* array that has an element without id or content: parsing it counts as a
\* failure.
C30_MalformedArrayRejected ==
    config.doc = "page3" =>
        /\ placeholders = SectionIds
        /\ decryptedContent = JNull
        /\ decryptedSections = [s \in {} |-> 0]

-----------------------------------------------------------------------------
(* HexEncoder.parse on its own                                             *)

MaxHexLen == 4

\* The strings handed to HexEncoder.parse: up to MaxHexLen characters, hex
\* digits of both cases and characters that are none.
HexChars == {"0", "1", "a", "F", "g", " ", "-", "x"}
RECURSIVE HexInputs(_)
HexInputs(n) ==
    IF n = 0 THEN {""}
    ELSE With(HexInputs(n - 1), LAMBDA shorter :
            shorter \cup {c \o str : c \in HexChars, str \in shorter})

InitHex ==
    /\ codec \in [stage : {"hex"}, hexString : HexInputs(MaxHexLen)]
    /\ variant = "init"
    /\ config = [doc |-> "page1", isRememberEnabled |-> FALSE, rememberDurationInDays |-> 0]
    /\ storage = EmptyStorage
    /\ now = 0
    /\ InitPage

\* HexEncoder.parse(hexString)
ParseHex ==
    /\ codec.stage = "hex"
    /\ codec' = [stage |-> "parsed", hexString |-> codec.hexString,
                 parsed |-> HexParse(codec.hexString)]
    /\ UNCHANGED rtVars

\* HexEncoder.stringify of the bytes parse returned
StringifyHex ==
    /\ codec.stage = "parsed"
    /\ codec.parsed.ok
    /\ codec' = [stage |-> "stringified", hexString |-> codec.hexString,
                 parsed |-> codec.parsed, hex |-> HexStringify(codec.parsed.v)]
    /\ UNCHANGED rtVars

NextHex ==
    \/ ParseHex
    \/ StringifyHex

SpecHex == InitHex /\ [][NextHex]_vars

\* ---- C31 ----
\* The strings made of hex digits only.
AllHexDigits(str) ==
    \A i \in 1..Len(str) :
        \E k \in 1..16 : CharAt(str, i) \in {CharAt(HexLower, k), CharAt(HexUpper, k)}

\* C31: HexEncoder.parse throws for every string of odd length and for
\* every string with a character that is not a hex digit, and returns bytes
\* only for strings of hex digits.
C31_HexParseStrict ==
    codec.stage = "parsed" =>
        (codec.parsed.ok <=> (Len(codec.hexString) % 2 = 0 /\ AllHexDigits(codec.hexString)))

\* What parse does hold to: odd lengths throw, and strings of hex digits of
\* even length give their bytes.
HexParseOfDigits ==
    codec.stage = "parsed" =>
        /\ Len(codec.hexString) % 2 # 0 => ~codec.parsed.ok
        /\ Len(codec.hexString) % 2 = 0 /\ AllHexDigits(codec.hexString) => codec.parsed.ok

\* ---- C32 ----
\* The key encrypt imported and the bytes subtle.encrypt returned for the
\* message of the experiment.
ExperimentKey(password) == ImportAesKey(HexParse(HashPassword(U(password), Salt)).v).v
ExperimentCiphertext ==
    SubtleEncrypt(codec.iv, ExperimentKey(codec.password), UTF8Parse(codec.msg)).v

\* C32: the envelope encrypt returns is the hex of the IV, exactly 32
\* characters, followed at once by the hex of the ciphertext, and decrypt
\* takes the first 32 characters as the IV and the rest as the ciphertext.
C32_EnvelopeLayout ==
    /\ codec.stage \in {"encrypted", "decrypted"} /\ codec.encrypted.ok =>
          With(codec.encrypted.v, LAMBDA envelope :
              /\ Len(envelope) = 32 + 2 * Len(ExperimentCiphertext)
              /\ \A i \in 1..Len(envelope) :
                     \E k \in 1..16 : CharAt(envelope, i) = CharAt(HexLower, k)
              /\ HexParse(SubSeq(envelope, 1, 32)) = Ok(codec.iv)
              /\ HexParse(SubSeq(envelope, 33, Len(envelope))) = Ok(ExperimentCiphertext))
    /\ codec.stage = "decrypted" =>
          With(SubtleDecrypt(HexParse(SubSeq(codec.encrypted.v, 1, 32)).v,
                             ExperimentKey(codec.password2),
                             HexParse(SubSeq(codec.encrypted.v, 33,
                                             Len(codec.encrypted.v))).v),
               LAMBDA decrypted :
                   codec.decrypted = IF decrypted.ok THEN Ok(UTF8Stringify(decrypted.v))
                                     ELSE Throw)

\* A message of more than one block was encrypted with an IV that has a
\* byte below 16, and decrypted with the same key.
C32_EnvelopeDecrypted ==
    /\ codec.stage = "decrypted"
    /\ codec.password2 = codec.password
    /\ \E i \in 1..Len(codec.iv) : codec.iv[i] < 16
    /\ Len(codec.encrypted.v) > 64
    /\ codec.decrypted.ok

\* ---- C33 ----
\* C33: in the per-section runtime, however a recalled attempt and the
\* submissions for a section interleave, the content of the section is in
\* the document at most once, and not at all while its placeholder is there.
C33_InsertedAtMostOnce ==
    variant = "section" =>
        \A sectionId \in SectionIds :
            /\ Len(inserted[sectionId]) <= 1
            /\ sectionId \in placeholders => inserted[sectionId] = <<>>

\* A submission has injected a section while the recalled attempt for the
\* same section, made with the page's key, is still suspended.
C33_RecallAfterSubmission ==
    \E a \in BagToSet(pending) :
        /\ variant = "section"
        /\ a.kind = "remembered"
        /\ a.hashedPassword = DocKey[config.doc]
        /\ a.sectionId \notin placeholders
        /\ Len(inserted[a.sectionId]) = 1

\* ---- C34 ----
\* C34: localStorage never has the expiration of a scope without the key of
\* that scope.
C34_ExpirationOnlyWithKey ==
    \A scope \in Scopes :
        HasItem(storage, ExpirationItem(scope)) => HasItem(storage, PassphraseItem(scope))

\* One section is remembered with an expiration, the other with none, after
\* time has passed.
C34_WithAndWithoutExpiration ==
    /\ variant = "section"
    /\ HasItem(storage, ExpirationItem("staticrypt-section-0"))
    /\ HasItem(storage, PassphraseItem("staticrypt-section-1"))
    /\ ~HasItem(storage, ExpirationItem("staticrypt-section-1"))
    /\ now > 0

\* ---- C35 ----
\* C35: in the whole-document runtime, a submission made once
\* decryptedContent is set derives no key and decrypts nothing (no call is
\* suspended, no alert), injects the section the prompt is open for whatever
\* the password field holds, and leaves localStorage as it is.
C35_CachedSubmission ==
    [][(variant = "whole" /\ decryptedContent # JNull /\ Submit) =>
            /\ pending' = pending
            /\ storage' = storage
            /\ decryptedContent' = decryptedContent
            /\ lastAlert' = ""
            /\ currentSectionId \notin placeholders'
            /\ Len(inserted'[currentSectionId]) = 1]_vars

\* Both sections are injected with the remember option checked on a page
\* that allows it, the field empty, and nothing in localStorage.
C35_UnlockedFromCache ==
    /\ variant = "whole"
    /\ decryptedContent # JNull
    /\ placeholders = {}
    /\ passwordInput = ""
    /\ rememberChecked /\ config.isRememberEnabled
    /\ storage = EmptyStorage
    /\ pending = EmptyBag
    /\ modalDisplay = "none"

\* ---- C36 ----
\* The per-section attempt a resumes in this step.
KeyOfAttempt(a) == IF a.kind = "submit" THEN KeyOf[a.password] ELSE a.hashedPassword

AttemptResumes(a) == SubmitSection(a) \/ TryRememberedPasswordResume(a)

\* C36: in the per-section runtime an attempt for one section leaves the
\* placeholder and the inserted content of every other section as they were,
\* although the array it decrypted holds every section; and a placeholder
\* goes away only in the step of an attempt for its own section.
C36_OnlyRequestedSection ==
    [][variant = "section" =>
        /\ \A a \in BagToSet(pending) :
              AttemptResumes(a) =>
                  /\ \A s \in SectionIds \ {a.sectionId} :
                        /\ s \in placeholders' <=> s \in placeholders
                        /\ inserted'[s] = inserted[s]
                  /\ a.sectionId \notin placeholders' /\ a.sectionId \in placeholders =>
                        \A s \in SectionIds :
                            Truthy(FindSection(KeyOfAttempt(a), s).v)
        /\ \A s \in placeholders \ placeholders' :
              \E a \in BagToSet(pending) : a.sectionId = s /\ AttemptResumes(a)]_vars

\* The second section is unlocked and the first still shows its placeholder.
C36_OtherSectionLocked ==
    /\ variant = "section"
    /\ "staticrypt-section-1" \notin placeholders
    /\ Len(inserted["staticrypt-section-1"]) = 1
    /\ "staticrypt-section-0" \in placeholders
    /\ inserted["staticrypt-section-0"] = <<>>
    /\ DOMAIN decryptedSections = {"staticrypt-section-1"}

\* ---- C37 ----
\* C37: while the page's isRememberEnabled is false no step changes
\* localStorage, no recalled attempt is started or in flight (neither on
\* DOMContentLoaded nor when a section is activated), and the load leaves
\* the placeholders in place.
C37_RememberDisabled ==
    [][~config.isRememberEnabled =>
        /\ storage' = storage
        /\ \A a \in BagToSet(pending) \cup BagToSet(pending') : ~Recalled(a)
        /\ DOMContentLoaded => pending' = pending /\ placeholders' = placeholders
        /\ \A sectionId \in SectionIds :
              (ShowPasswordPrompt(sectionId) /\ sectionId \notin DOMAIN decryptedSections) =>
                  pending' = pending /\ modalDisplay' = "block"]_vars

\* On a page with remembering disabled: a credential of the first section is
\* in localStorage from an earlier visit and its prompt is open with the
\* placeholder in place; the second section was unlocked with the option
\* checked and has no entry.
C37_DisabledWithStoredCredential ==
    /\ variant = "section"
    /\ ~config.isRememberEnabled
    /\ GetItem(storage, PassphraseItem("staticrypt-section-0")) = DocKey[config.doc]
    /\ ~HasItem(storage, PassphraseItem("staticrypt-section-1"))
    /\ "staticrypt-section-1" \notin placeholders
    /\ rememberChecked
    /\ currentSectionId = "staticrypt-section-0"
    /\ modalDisplay = "block"
    /\ "staticrypt-section-0" \in placeholders
    /\ pending = EmptyBag

\* ---- C38 ----
\* The positions where pat occurs in str.
Occurrences(str, pat) == {i \in 1..Len(str) : OccursAt(str, pat, i)}

IsPrefixOf(s, str) == Len(s) <= Len(str) /\ SubSeq(str, 1, Len(s)) = s

IsSuffixOf(s, str) ==
    Len(s) <= Len(str) /\ SubSeq(str, Len(str) - Len(s) + 1, Len(str)) = s

\* The start markers of html that an end marker follows.
ClosedStarts(html) ==
    {i \in Occurrences(html, StartMarker) :
        \E j \in Occurrences(html, EndMarker) : j >= i + Len(StartMarker)}

\* C38: processHtmlContent extracts a region exactly when some start marker
\* is followed by an end marker; no extracted content holds an end marker
\* (a region ends at the nearest one); the text from a start marker that no
\* end marker follows to the end of the input is the end of the output; the
\* text before the first start marker, end markers included, is the start of
\* the output; and every end marker that closes no region is still in the
\* output.
C38_NearestEndMarker ==
    codec.stage = "processed" =>
        With(codec.contents, LAMBDA html :
        With(codec.processed, LAMBDA p :
            /\ p.sections # <<>> <=> ClosedStarts(html) # {}
            /\ \A k \in 1..Len(p.sections) :
                   Occurrences(p.sections[k].content, EndMarker) = {}
            /\ \A i \in Occurrences(html, StartMarker) \ ClosedStarts(html) :
                   IsSuffixOf(SubSeq(html, i, Len(html)), p.processedHtml)
            /\ \A i \in 1..(Len(html) + 1) :
                   (\A j \in Occurrences(html, StartMarker) : i <= j) =>
                       IsPrefixOf(SubSeq(html, 1, i - 1), p.processedHtml)
            /\ Cardinality(Occurrences(p.processedHtml, EndMarker)) =
                   Cardinality(Occurrences(html, EndMarker)) - Len(p.sections)))

\* An end marker, a region whose content holds a second start marker, and a
\* start marker that nothing closes.
C38_StrayMarkersAroundRegion ==
    /\ codec.stage = "processed"
    /\ codec.contents = EndMarker \o StartMarker \o StartMarker \o EndMarker \o StartMarker
    /\ Len(codec.processed.sections) = 1
    /\ codec.processed.sections[1].content = StartMarker
    /\ codec.processed.processedHtml =
           EndMarker \o Placeholder("staticrypt-section-0") \o StartMarker

====
